---------------------------- MODULE Spec2Model ----------------------------
(***************************************************************************)
(* Retrieval engine of the rule-based chatbot (Rust implementation):       *)
(* tokeniser, keyword-overlap scorer, TF-IDF scorer, and the command-line  *)
(* driver that builds one index and answers queries against it.            *)
(*                                                                         *)
(* Text is a sequence of characters; a character is an atom named by the   *)
(* one-character string it stands for, or by its code point ("U+00C9").    *)
(* f32 values are modelled bit-exactly as <<m, e>> = m * 2^e with          *)
(* 2^23 <= m < 2^24 (or <<0, 0>> for zero), rounded to nearest-even.       *)
(***************************************************************************)
EXTENDS Integers, Sequences, FiniteSets, TLC

(***************************************************************************)
(* Sequence helpers                                                        *)
(***************************************************************************)
Range(s) == { s[i] : i \in DOMAIN s }

\* the same sequence, its elements evaluated once (iterator.collect())
Collected(s) == SubSeq(s, 1, Len(s))

RECURSIVE SetToSeq(_)
\* some enumeration of a finite set (used only where the order is immaterial)
SetToSeq(S) ==
  IF S = {} THEN << >>
  ELSE LET x == CHOOSE y \in S : TRUE IN <<x>> \o SetToSeq(S \ {x})

RECURSIVE CollectedMapFrom(_, _, _)
CollectedMapFrom(f, keys, i) ==
  IF i > Len(keys) THEN << >>
  ELSE (keys[i] :> f[keys[i]]) @@ CollectedMapFrom(f, keys, i + 1)

\* the same function, its values evaluated once (iterator.collect() into a map)
CollectedMap(f) == CollectedMapFrom(f, SetToSeq(DOMAIN f), 1)

\* all orders in which the elements of a finite set can be visited
Orderings(S) ==
  { p \in [1..Cardinality(S) -> S] : \A i, j \in 1..Cardinality(S) : i # j => p[i] # p[j] }

(***************************************************************************)
(* f32 arithmetic (IEEE 754 binary32, non-negative finite values,          *)
(* round-to-nearest-even).  Intermediate integers stay below 2^31.         *)
(***************************************************************************)
F32Zero == <<0, 0>>
F32One  == <<2^23, -23>>

RECURSIVE BitLen(_)
\* number of bits of n
BitLen(n) ==
  IF n = 0 THEN 0
  ELSE IF n >= 2^24 THEN 24 + BitLen(n \div 2^24)
  ELSE IF n >= 2^12 THEN 12 + BitLen(n \div 2^12)
  ELSE 1 + BitLen(n \div 2)

\* the f32 nearest to (sig + f) * 2^e, where 0 <= f < 1 and f > 0 iff sticky
RoundF32(sig, e, sticky) ==
  IF sig = 0 THEN F32Zero
  ELSE LET len == BitLen(sig) IN
    IF len <= 24 THEN <<sig * 2^(24 - len), e - (24 - len)>>
    ELSE LET shift == len - 24
             q     == sig \div 2^shift
             r     == sig % 2^shift
             half  == 2^(shift - 1)
             up    == \/ r > half
                      \/ r = half /\ sticky
                      \/ r = half /\ ~sticky /\ q % 2 = 1
             m     == IF up THEN q + 1 ELSE q
         IN IF m = 2^24 THEN <<2^23, e + shift + 1>> ELSE <<m, e + shift>>

\* `count as f32`
F32FromNat(n) == RoundF32(n, 0, FALSE)

\* a * b
F32Mul(a, b) ==
  IF a[1] = 0 \/ b[1] = 0 THEN F32Zero
  ELSE LET a1 == a[1] \div 4096   a0 == a[1] % 4096
           b1 == b[1] \div 4096   b0 == b[1] % 4096
           mid == a1 * b0 + a0 * b1
           losum == (mid % 4096) * 4096 + a0 * b0
           hi == a1 * b1 + (mid \div 4096) + (losum \div 2^24)
           lo == losum % 2^24
       IN RoundF32(hi * 16 + (lo \div 2^20), a[2] + b[2] + 20, lo % 2^20 # 0)

\* a + b
F32Add(a, b) ==
  IF a[1] = 0 THEN b
  ELSE IF b[1] = 0 THEN a
  ELSE LET big   == IF a[2] >= b[2] THEN a ELSE b
           small == IF a[2] >= b[2] THEN b ELSE a
           d     == big[2] - small[2]
       IN IF d >= 26 THEN big
          ELSE RoundF32(big[1] * 8 + ((small[1] * 8) \div 2^d), big[2] - 3,
                        (small[1] * 8) % 2^d # 0)

RECURSIVE LongDiv(_, _, _, _)
\* <<quotient, remainder>> after bringing down `bits` more zero bits
LongDiv(q, r, d, bits) ==
  IF bits = 0 THEN <<q, r>>
  ELSE IF 2 * r >= d THEN LongDiv(2 * q + 1, 2 * r - d, d, bits - 1)
       ELSE LongDiv(2 * q, 2 * r, d, bits - 1)

\* a / b, b # 0
F32Div(a, b) ==
  IF a[1] = 0 THEN F32Zero
  ELSE LET qr == LongDiv(a[1] \div b[1], a[1] % b[1], b[1], 26)
       IN RoundF32(qr[1], a[2] - b[2] - 26, qr[2] # 0)

RECURSIVE SqrtDigits(_, _, _, _)
\* digit-by-digit square root: `pairs` two-bit groups of n remain, top first
SqrtDigits(root, rem, n, pairs) ==
  IF pairs = 0 THEN <<root, rem>>
  ELSE LET p == (n \div 4^(pairs - 1)) % 4
           r == rem * 4 + p
           t == root * 4 + 1
       IN IF r >= t THEN SqrtDigits(root * 2 + 1, r - t, n, pairs - 1)
          ELSE SqrtDigits(root * 2, r, n, pairs - 1)

\* a.sqrt()
F32Sqrt(a) ==
  IF a[1] = 0 THEN F32Zero
  ELSE LET odd == a[2] % 2 # 0
           m   == IF odd THEN 2 * a[1] ELSE a[1]
           e   == IF odd THEN a[2] - 1 ELSE a[2]
           s1  == SqrtDigits(0, 0, m, 13)
           s2  == SqrtDigits(s1[1], s1[2], 0, 14)
       IN RoundF32(s2[1], (e \div 2) - 14, s2[2] # 0)

\* a < b, a <= b
F32Lt(a, b) ==
  IF b[1] = 0 THEN FALSE
  ELSE IF a[1] = 0 THEN TRUE
  ELSE a[2] < b[2] \/ (a[2] = b[2] /\ a[1] < b[1])
F32Le(a, b) == a = b \/ F32Lt(a, b)

\* x.ln() for the ratios (N + 1) / (df + 1) a corpus of up to 7 documents
\* produces (the values of the platform's logf)
F32Ln(x) ==
  CASE x = <<8388608, -23>> -> <<0, 0>>               \* ln(1)
    [] x = <<12582912, -23>> -> <<13605151, -25>>     \* ln(3/2)
    [] x = <<8388608, -22>> -> <<11629080, -24>>      \* ln(2)
    [] x = <<11184811, -23>> -> <<9653010, -25>>      \* ln(4/3)
    [] x = <<10485760, -22>> -> <<15372808, -24>>     \* ln(5/2)
    [] x = <<13981013, -23>> -> <<8570231, -24>>      \* ln(5/3)
    [] x = <<10485760, -23>> -> <<14974910, -26>>     \* ln(5/4)
    [] x = <<12582912, -22>> -> <<9215828, -23>>      \* ln(3)
    [] x = <<10066330, -23>> -> <<12235395, -26>>     \* ln(6/5)
    [] x = <<14680064, -22>> -> <<10508937, -23>>     \* ln(7/2)
    [] x = <<9786709, -22>> -> <<14215299, -24>>      \* ln(7/3)
    [] x = <<14680064, -23>> -> <<9388795, -24>>      \* ln(7/4)
    [] x = <<11744051, -23>> -> <<11290134, -25>>     \* ln(7/5)
    [] x = <<9786709, -23>> -> <<10344875, -26>>      \* ln(7/6)
    [] x = <<8388608, -21>> -> <<11629080, -23>>      \* ln(4)
    [] x = <<11184811, -22>> -> <<16455585, -24>>     \* ln(8/3)
    [] x = <<13421773, -23>> -> <<15770705, -25>>     \* ln(8/5)
    [] x = <<9586981, -23>> -> <<8961143, -26>>       \* ln(8/7)

RECURSIVE F32SumFrom(_, _, _)
\* acc += values[i], values[i + 1], ... in this order
F32SumFrom(values, i, acc) ==
  IF i > Len(values) THEN acc
  ELSE F32SumFrom(values, i + 1, F32Add(acc, values[i]))


(***************************************************************************)
(* Characters.  The classes are those the code asks about:                 *)
(* char::is_alphanumeric, char::is_ascii_digit, char::to_ascii_lowercase.  *)
(* "U+00C9" is E-acute (an uppercase letter outside ASCII), "U+00E9" its   *)
(* lowercase form, "U+03E7" the Coptic small letter khei, "U+0663" the    *)
(* Arabic-Indic digit three (alphanumeric, not an ASCII digit).            *)
(***************************************************************************)
AsciiLowerLetters == {"a", "b", "c", "d", "e", "f", "g", "i", "l", "o", "t", "x"}
AsciiUpperLetters == {"A", "B", "E"}
AsciiDigits       == {"1", "2", "3", "7", "9"}
OtherLetters      == {"U+00C9", "U+00E9", "U+03E7"}
OtherDigits       == {"U+0663"}
Punctuation       == {"\t", "\n", " ", "\"", "#", "&", "'", ":", ";", "<", ">", "?"}

\* the characters texts are written in
Characters ==
  AsciiLowerLetters \cup AsciiUpperLetters \cup AsciiDigits \cup OtherLetters
    \cup OtherDigits \cup Punctuation

\* code point of a character (String comparison is by UTF-8 bytes, which
\* orders strings as their code points do)
CodePoint(c) ==
  CASE c = "\t" -> 9 [] c = "\n" -> 10 [] c = "E" -> 69 [] c = "i" -> 105
    [] c = "x" -> 120 [] c = " " -> 32  [] c = "\"" -> 34 [] c = "#" -> 35
    [] c = "&" -> 38  [] c = "'" -> 39  [] c = "1" -> 49  [] c = "2" -> 50
    [] c = "3" -> 51  [] c = "7" -> 55  [] c = "9" -> 57  [] c = ":" -> 58  [] c = ";" -> 59
    [] c = "<" -> 60  [] c = ">" -> 62  [] c = "?" -> 63  [] c = "A" -> 65
    [] c = "B" -> 66  [] c = "a" -> 97  [] c = "b" -> 98  [] c = "c" -> 99
    [] c = "d" -> 100 [] c = "e" -> 101 [] c = "f" -> 102 [] c = "g" -> 103
    [] c = "l" -> 108 [] c = "o" -> 111 [] c = "t" -> 116
    [] c = "U+00C9" -> 201 [] c = "U+00E9" -> 233 [] c = "U+03E7" -> 999
    [] c = "U+0663" -> 1635

\* character.is_alphanumeric()
IsAlphanumeric(c) ==
  c \in AsciiLowerLetters \cup AsciiUpperLetters \cup AsciiDigits
        \cup OtherLetters \cup OtherDigits

\* character.is_ascii_digit()
IsAsciiDigit(c) == c \in AsciiDigits

\* character.to_ascii_lowercase(): only A-Z are mapped
ToAsciiLowercase(c) ==
  CASE c = "A" -> "a" [] c = "B" -> "b" [] c = "E" -> "e" [] OTHER -> c

\* char::to_lowercase: every uppercase letter is mapped
ToLowercase(c) ==
  CASE c = "A" -> "a" [] c = "B" -> "b" [] c = "E" -> "e" [] c = "U+00C9" -> "U+00E9"
    [] OTHER -> c

(***************************************************************************)
(* tokenise.rs                                                             *)
(***************************************************************************)
\* fault: character.is_numeric() in place of is_ascii_digit()
token_is_numeric_any_script(token_text) ==
  \A i \in DOMAIN token_text : token_text[i] \in AsciiDigits \cup OtherDigits

\* token_text.chars().all(|character| character.is_ascii_digit())
token_is_numeric(token_text) ==
  \A i \in DOMAIN token_text : IsAsciiDigit(token_text[i])

RECURSIVE ScanCharactersNoFlush(_, _, _, _)
\* fault: the token open at the end of the input is not pushed
ScanCharactersNoFlush(input_text, i, tokens, current_token) ==
  IF i > Len(input_text)
  THEN tokens
  ELSE IF IsAlphanumeric(input_text[i])
       THEN ScanCharactersNoFlush(input_text, i + 1, tokens,
                                  Append(current_token, ToAsciiLowercase(input_text[i])))
       ELSE IF current_token # << >>
            THEN ScanCharactersNoFlush(input_text, i + 1, Append(tokens, current_token), << >>)
            ELSE ScanCharactersNoFlush(input_text, i + 1, tokens, current_token)

RECURSIVE ScanCharacters(_, _, _, _)
\* the character loop of tokenise: `tokens` and `current_token` after the
\* characters from position i on have been read, with the final flush
ScanCharacters(input_text, i, tokens, current_token) ==
  IF i > Len(input_text)
  THEN IF current_token # << >> THEN Append(tokens, current_token) ELSE tokens
  ELSE IF IsAlphanumeric(input_text[i])
       THEN ScanCharacters(input_text, i + 1, tokens,
                           Append(current_token, ToAsciiLowercase(input_text[i])))
       ELSE IF current_token # << >>
            THEN ScanCharacters(input_text, i + 1, Append(tokens, current_token), << >>)
            ELSE ScanCharacters(input_text, i + 1, tokens, current_token)

\* token_length >= parser_config.min_token_length || is_numeric
MeetsLengthRule(token_text, config) ==
  Len(token_text) >= config.min_token_length \/ token_is_numeric(token_text)

\* fault: stopwords are dropped whatever remove_stopwords says
KeepsTokenFlagIgnored(token_text, stopwords, config) ==
  /\ MeetsLengthRule(token_text, config)
  /\ token_text \notin stopwords

\* the filter loop of tokenise: TRUE for a token pushed to filtered_tokens
KeepsToken(token_text, stopwords, config) ==
  /\ MeetsLengthRule(token_text, config)
  /\ ~(config.remove_stopwords /\ token_text \in stopwords)

tokenise(input_text, stopwords, config) ==
  SelectSeq(ScanCharacters(input_text, 1, << >>, << >>),
            LAMBDA token_text : KeepsToken(token_text, stopwords, config))

tokenise_to_set(input_text, stopwords, config) ==
  Range(tokenise(input_text, stopwords, config))

(***************************************************************************)
(* Orderings (std::cmp::Ordering) and the comparisons the sorts chain      *)
(***************************************************************************)
\* usize::cmp
cmp_usize(a, b) == IF a < b THEN "Less" ELSE IF a > b THEN "Greater" ELSE "Equal"

\* f32::partial_cmp(..).unwrap_or(Equal); no NaN arises from the values above
partial_cmp_f32(a, b) ==
  IF F32Lt(a, b) THEN "Less" ELSE IF F32Lt(b, a) THEN "Greater" ELSE "Equal"

RECURSIVE cmp_string(_, _)
\* String::cmp: lexicographic by code point, a proper prefix first
cmp_string(a, b) ==
  IF a = << >> /\ b = << >> THEN "Equal"
  ELSE IF a = << >> THEN "Less"
  ELSE IF b = << >> THEN "Greater"
  ELSE IF CodePoint(Head(a)) < CodePoint(Head(b)) THEN "Less"
  ELSE IF CodePoint(Head(a)) > CodePoint(Head(b)) THEN "Greater"
  ELSE cmp_string(Tail(a), Tail(b))

\* Ordering::then_with
then_with(first, second) == IF first # "Equal" THEN first ELSE second

\* slice::sort_by: the stable sort of entries, compare[j][i] being what the
\* comparator returns for entries j and i; entry i goes after every entry that
\* compares Less than it and every equal entry that precedes it
sort_by(entries, compare) ==
  LET n == Len(entries)
      position(i) ==
        1 + Cardinality({ j \in 1..n :
              \/ compare[j][i] = "Less"
              \/ compare[j][i] = "Equal" /\ j < i })
  IN Collected([ k \in 1..n |-> entries[CHOOSE i \in 1..n : position(i) = k] ])

\* fault: one entry more than asked for
take_one_more(entries, top_k) ==
  SubSeq(entries, 1, IF top_k + 1 < Len(entries) THEN top_k + 1 ELSE Len(entries))

\* iterator.take(top_k)
take(entries, top_k) ==
  SubSeq(entries, 1, IF top_k < Len(entries) THEN top_k ELSE Len(entries))

(***************************************************************************)
(* data_model.rs                                                           *)
(***************************************************************************)
\* Option<T>
None == << >>
Some(value) == <<value>>

make_hit(guid, deck_path, question_preview, score) ==
  [guid |-> guid, deck_path |-> deck_path,
   question_preview |-> question_preview, score |-> score]

(***************************************************************************)
(* scoring/keyword.rs                                                      *)
(***************************************************************************)
\* one PreparedQuestion
PreparedQuestionOf(card, stopwords, config) ==
  LET token_vector == tokenise(card.question_text, stopwords, config)
  IN [guid |-> card.guid, deck_path |-> card.deck_path,
      question_preview |-> card.question_text,
      token_set |-> Range(token_vector),
      token_count |-> Len(token_vector)]

prepare_keyword_index(cards, stopwords, config) ==
  [ i \in 1..Len(cards) |-> PreparedQuestionOf(cards[i], stopwords, config) ]

\* fault: union in place of intersection
KeywordUnionCount(query_token_set, prepared_question) ==
  Cardinality(query_token_set \cup prepared_question.token_set)

\* query_token_set.intersection(&prepared_question.token_set).count()
KeywordOverlapCount(query_token_set, prepared_question) ==
  Cardinality(query_token_set \cap prepared_question.token_set)

\* the tuple pushed to scored_hits for one prepared question
KeywordScoredHit(query_token_set, prepared_question) ==
  LET overlap_count == KeywordOverlapCount(query_token_set, prepared_question)
  IN << make_hit(prepared_question.guid, prepared_question.deck_path,
                Some(prepared_question.question_preview), F32FromNat(overlap_count)),
        overlap_count, prepared_question.token_count >>

\* fault: the token counts compared the other way round
KeywordCompareLongerFirst(left, right) ==
  then_with(partial_cmp_f32(right[1].score, left[1].score),
  then_with(cmp_usize(right[2], left[2]),
  then_with(cmp_usize(right[3], left[3]),
            cmp_string(left[1].guid, right[1].guid))))

\* fault: no comparison of the GUIDs at the end of the chain
KeywordCompareNoGuid(left, right) ==
  then_with(partial_cmp_f32(right[1].score, left[1].score),
  then_with(cmp_usize(right[2], left[2]),
            cmp_usize(left[3], right[3])))

\* the comparator of scored_hits.sort_by in score_keyword_overlap
KeywordCompare(left, right) ==
  then_with(partial_cmp_f32(right[1].score, left[1].score),
  then_with(cmp_usize(right[2], left[2]),
  then_with(cmp_usize(left[3], right[3]),
            cmp_string(left[1].guid, right[1].guid))))

\* scored_hits of score_keyword_overlap after the sort, before take(top_k)
KeywordScoredHits(query_text, prepared_index, stopwords, config) ==
  LET query_token_set == tokenise_to_set(query_text, stopwords, config)
      kept == SelectSeq(prepared_index,
                LAMBDA pq : KeywordOverlapCount(query_token_set, pq) # 0)
      pushed == Collected([ i \in 1..Len(kept) |-> KeywordScoredHit(query_token_set, kept[i]) ])
  IN sort_by(pushed,
             Collected([ j \in 1..Len(pushed) |-> Collected([ i \in 1..Len(pushed) |->
                          KeywordCompare(pushed[j], pushed[i]) ]) ]))

\* .into_iter().take(top_k).map(|tuple| tuple.0).collect()
TakeHits(sorted_hits, top_k) ==
  LET taken == take(sorted_hits, top_k)
  IN Collected([ i \in 1..Len(taken) |-> taken[i][1] ])

score_keyword_overlap(query_text, prepared_index, stopwords, config, top_k) ==
  TakeHits(KeywordScoredHits(query_text, prepared_index, stopwords, config), top_k)

(***************************************************************************)
(* scoring/tfidf.rs                                                        *)
(*                                                                         *)
(* The f32 sums of build_tfidf_index and score_tfidf run over HashMap      *)
(* iterators, whose order is unspecified and differs from one map to the   *)
(* next (each map is seeded by its own RandomState).  f32 addition is not  *)
(* associative, so the order is an input: build_tfidf_index is the set of  *)
(* indexes the build can return, and score_tfidf takes the order in which  *)
(* query_weighted_map is iterated during the call.                         *)
(***************************************************************************)
\* fault: a term is counted once however often it occurs
TermCountsOnce(token_vector) ==
  CollectedMap([ term \in Range(token_vector) |-> 1 ])

\* *map.entry(token).or_insert(0) += 1 over a token vector
TermCounts(token_vector) ==
  CollectedMap([ term \in Range(token_vector) |->
      Cardinality({ i \in DOMAIN token_vector : token_vector[i] = term }) ])

\* one DocumentEntry
DocumentEntryOf(card, stopwords, config) ==
  LET token_vector == tokenise(card.question_text, stopwords, config)
      term_counts  == TermCounts(token_vector)
  IN [guid |-> card.guid, deck_path |-> card.deck_path,
      question_preview |-> card.question_text,
      term_frequencies |->
        CollectedMap([ term \in DOMAIN term_counts |-> F32FromNat(term_counts[term]) ]),
      token_count |-> Len(token_vector)]

\* document_frequency_map after the first loop of build_tfidf_index
\* fault: only the terms of the first document are counted
DocumentFrequencyMapOfFirst(document_entries) ==
  CollectedMap(
    [ term \in UNION { DOMAIN document_entries[i].term_frequencies :
                         i \in DOMAIN document_entries \cap {1} } |->
        Cardinality({ i \in DOMAIN document_entries :
                        term \in DOMAIN document_entries[i].term_frequencies }) ])

DocumentFrequencyMap(document_entries) ==
  CollectedMap(
    [ term \in UNION { DOMAIN document_entries[i].term_frequencies : i \in DOMAIN document_entries } |->
        Cardinality({ i \in DOMAIN document_entries :
                        term \in DOMAIN document_entries[i].term_frequencies }) ])

\* fault: the logarithm without the 1.0 added
IdfValueUnsmoothed(document_count, document_frequency) ==
  LET numerator   == F32Add(F32FromNat(document_count), F32One)
      denominator == F32Add(F32FromNat(document_frequency), F32One)
  IN F32Ln(F32Div(numerator, denominator))

\* (numerator / denominator).ln() + 1.0
IdfValue(document_count, document_frequency) ==
  LET numerator   == F32Add(F32FromNat(document_count), F32One)
      denominator == F32Add(F32FromNat(document_frequency), F32One)
  IN F32Add(F32Ln(F32Div(numerator, denominator)), F32One)

\* *inverse_document_frequency.get(term_text).unwrap_or(&0.0)
IdfLookup(inverse_document_frequency, term_text) ==
  IF term_text \in DOMAIN inverse_document_frequency
  THEN inverse_document_frequency[term_text] ELSE F32Zero

\* weighted_value * weighted_value for each term of a document
DocumentSquares(document_entry, inverse_document_frequency) ==
  CollectedMap([ term \in DOMAIN document_entry.term_frequencies |->
    LET weighted_value == F32Mul(document_entry.term_frequencies[term],
                                 IdfLookup(inverse_document_frequency, term))
    IN F32Mul(weighted_value, weighted_value) ])

\* squared_sum.sqrt(), the terms visited in the given order
DocumentNorm(squares, order) ==
  F32Sqrt(F32SumFrom(Collected([ i \in DOMAIN order |-> squares[order[i]] ]), 1, F32Zero))

\* the norms a document can get, over the iteration orders of its map
DocumentNorms(document_entry, inverse_document_frequency) ==
  LET squares == DocumentSquares(document_entry, inverse_document_frequency)
  IN { DocumentNorm(squares, order) :
         order \in Orderings(DOMAIN document_entry.term_frequencies) }

\* the indexes build_tfidf_index can return
build_tfidf_index(cards, stopwords, config) ==
  LET document_entries ==
        Collected([ i \in 1..Len(cards) |-> DocumentEntryOf(cards[i], stopwords, config) ])
      document_count   == Len(document_entries)
      document_frequency_map == DocumentFrequencyMap(document_entries)
      inverse_document_frequency ==
        CollectedMap([ term \in DOMAIN document_frequency_map |->
                         IdfValue(document_count, document_frequency_map[term]) ])
      norm_sets == Collected([ i \in 1..document_count |->
                      DocumentNorms(document_entries[i], inverse_document_frequency) ])
      norms(i) == norm_sets[i]
  IN { [documents |-> document_entries,
        inverse_document_frequency |-> inverse_document_frequency,
        document_l2_norms |-> document_l2_norms,
        vocabulary_size |-> Cardinality(DOMAIN inverse_document_frequency),
        document_count |-> document_count] :
       document_l2_norms \in
         { l \in [1..document_count -> UNION { norms(i) : i \in 1..document_count }] :
             \A i \in 1..document_count : l[i] \in norms(i) } }

\* fault: a term absent from the IDF table is weighted with idf 1.0
QueryWeightedMapUnknownWeighted(query_token_vector, tfidf_index) ==
  LET query_term_counts == TermCounts(query_token_vector)
      idf(term) ==
        IF term \in DOMAIN tfidf_index.inverse_document_frequency
        THEN tfidf_index.inverse_document_frequency[term] ELSE F32One
  IN CollectedMap([ term \in DOMAIN query_term_counts |->
         F32Mul(F32FromNat(query_term_counts[term]), idf(term)) ])

\* query_weighted_map: count * idf for the query terms the corpus knows
QueryWeightedMap(query_token_vector, tfidf_index) ==
  LET query_term_counts == TermCounts(query_token_vector)
      known == { term \in DOMAIN query_term_counts :
                   IdfLookup(tfidf_index.inverse_document_frequency, term) # F32Zero }
  IN CollectedMap([ term \in known |->
         F32Mul(F32FromNat(query_term_counts[term]),
                IdfLookup(tfidf_index.inverse_document_frequency, term)) ])

\* the iteration orders of the query's weight map
QueryOrders(query_text, tfidf_index, stopwords, config) ==
  Orderings(DOMAIN QueryWeightedMap(tokenise(query_text, stopwords, config), tfidf_index))

\* the (term, weight) entries of query_weighted_map as its iterator yields them
QueryEntries(query_weighted_map, order) ==
  Collected([ i \in DOMAIN order |-> <<order[i], query_weighted_map[order[i]]>> ])

RECURSIVE QuerySquaredSumFrom(_, _, _)
\* query_squared_sum += weighted_value * weighted_value, entry i onwards
QuerySquaredSumFrom(query_entries, i, acc) ==
  IF i > Len(query_entries) THEN acc
  ELSE QuerySquaredSumFrom(query_entries, i + 1,
         F32Add(acc, F32Mul(query_entries[i][2], query_entries[i][2])))

RECURSIVE DotProductFrom(_, _, _, _, _)
\* dot_product_sum over the query entries i onwards present in the document
DotProductFrom(query_entries, i, acc, document_entry, inverse_document_frequency) ==
  IF i > Len(query_entries) THEN acc
  ELSE LET term_text == query_entries[i][1]
           idf_value == IdfLookup(inverse_document_frequency, term_text)
           next ==
             IF term_text \in DOMAIN document_entry.term_frequencies /\ idf_value # F32Zero
             THEN F32Add(acc, F32Mul(query_entries[i][2],
                                     F32Mul(document_entry.term_frequencies[term_text], idf_value)))
             ELSE acc
       IN DotProductFrom(query_entries, i + 1, next, document_entry,
                         inverse_document_frequency)

\* dot_product_sum / (query_l2_norm * document_norm)
CosineSimilarity(dot_product_sum, query_l2_norm, document_norm) ==
  F32Div(dot_product_sum, F32Mul(query_l2_norm, document_norm))

\* fault: the similarities compared the other way round
TfidfCompareAscending(left, right) ==
  then_with(partial_cmp_f32(left[2], right[2]),
  then_with(cmp_usize(right[3], left[3]),
  then_with(cmp_usize(left[4], right[4]),
            cmp_string(left[1].guid, right[1].guid))))

\* the comparator of scored_hits.sort_by in score_tfidf
TfidfCompare(left, right) ==
  then_with(partial_cmp_f32(right[2], left[2]),
  then_with(cmp_usize(right[3], left[3]),
  then_with(cmp_usize(left[4], right[4]),
            cmp_string(left[1].guid, right[1].guid))))

\* the tuple pushed to scored_hits for one document
TfidfScoredHit(document_entry, cosine_similarity, query_token_set) ==
  << make_hit(document_entry.guid, document_entry.deck_path,
              Some(document_entry.question_preview), cosine_similarity),
     cosine_similarity,
     Cardinality(DOMAIN document_entry.term_frequencies \cap query_token_set),
     document_entry.token_count >>

\* fault: documents with a zero dot product are not skipped
TfidfDocumentLoopNoSkip(tfidf_index, query_entries, query_l2_norm, query_token_set) ==
  LET dots == Collected([ i \in 1..Len(tfidf_index.documents) |->
                 <<i, DotProductFrom(query_entries, 1, F32Zero, tfidf_index.documents[i],
                                     tfidf_index.inverse_document_frequency)>> ])
      kept == SelectSeq(dots, LAMBDA d : tfidf_index.document_l2_norms[d[1]] # F32Zero)
  IN Collected([ k \in 1..Len(kept) |->
       TfidfScoredHit(tfidf_index.documents[kept[k][1]],
                      CosineSimilarity(kept[k][2], query_l2_norm,
                                       tfidf_index.document_l2_norms[kept[k][1]]),
                      query_token_set) ])

\* the document loop of score_tfidf: scored_hits before the sort
TfidfDocumentLoop(tfidf_index, query_entries, query_l2_norm, query_token_set) ==
  LET dots == Collected([ i \in 1..Len(tfidf_index.documents) |->
                 <<i, DotProductFrom(query_entries, 1, F32Zero, tfidf_index.documents[i],
                                     tfidf_index.inverse_document_frequency)>> ])
      kept == SelectSeq(dots,
                LAMBDA d : tfidf_index.document_l2_norms[d[1]] # F32Zero /\ d[2] # F32Zero)
  IN Collected([ k \in 1..Len(kept) |->
       TfidfScoredHit(tfidf_index.documents[kept[k][1]],
                      CosineSimilarity(kept[k][2], query_l2_norm,
                                       tfidf_index.document_l2_norms[kept[k][1]]),
                      query_token_set) ])

\* fault: every document with tokens is ranked, whatever the query
TfidfScoredHitsUnguarded(query_text, tfidf_index, stopwords, config, order) ==
  LET query_token_vector == tokenise(query_text, stopwords, config)
      query_entries == QueryEntries(QueryWeightedMap(query_token_vector, tfidf_index), order)
      query_l2_norm == F32Sqrt(QuerySquaredSumFrom(query_entries, 1, F32Zero))
      query_token_set == tokenise_to_set(query_text, stopwords, config)
      pushed == TfidfDocumentLoopNoSkip(tfidf_index, query_entries, query_l2_norm,
                                        query_token_set)
  IN sort_by(pushed,
             Collected([ j \in 1..Len(pushed) |-> Collected([ i \in 1..Len(pushed) |->
                          TfidfCompare(pushed[j], pushed[i]) ]) ]))

\* scored_hits of score_tfidf after the sort, before take(top_k)
TfidfScoredHits(query_text, tfidf_index, stopwords, config, order) ==
  LET query_token_vector == tokenise(query_text, stopwords, config)
      query_entries == QueryEntries(QueryWeightedMap(query_token_vector, tfidf_index), order)
      query_l2_norm == F32Sqrt(QuerySquaredSumFrom(query_entries, 1, F32Zero))
      query_token_set == tokenise_to_set(query_text, stopwords, config)
  IN IF query_token_vector = << >> THEN << >>
     ELSE IF query_l2_norm = F32Zero THEN << >>
     ELSE LET pushed == TfidfDocumentLoop(tfidf_index, query_entries, query_l2_norm,
                                          query_token_set)
          IN sort_by(pushed,
               Collected([ j \in 1..Len(pushed) |-> Collected([ i \in 1..Len(pushed) |->
                            TfidfCompare(pushed[j], pushed[i]) ]) ]))

score_tfidf(query_text, tfidf_index, stopwords, config, top_k, order) ==
  TakeHits(TfidfScoredHits(query_text, tfidf_index, stopwords, config, order), top_k)

(***************************************************************************)
(* topics.rs                                                               *)
(*                                                                         *)
(* A DeckPath is a sequence of segments, a segment a text.  A Result is a  *)
(* record: Ok(value) or Err(error).                                        *)
(***************************************************************************)
\* Result::Ok, Result::Err
Ok(value) == [ok |-> TRUE, value |-> Some(value), error |-> << >>]
Err(error) == [ok |-> FALSE, value |-> << >>, error |-> Some(error)]

\* char::is_whitespace, for the characters of a topic text
IsWhitespace(c) == c \in {" ", "\t", "\n"}

RECURSIVE TrimStart(_)
TrimStart(text) ==
  IF text # << >> /\ IsWhitespace(Head(text)) THEN TrimStart(Tail(text)) ELSE text

RECURSIVE TrimEnd(_)
TrimEnd(text) ==
  IF text # << >> /\ IsWhitespace(text[Len(text)])
  THEN TrimEnd(SubSeq(text, 1, Len(text) - 1)) ELSE text

\* str::trim
trim(text) == TrimEnd(TrimStart(text))

\* str::starts_with
starts_with(text, prefix) ==
  Len(prefix) <= Len(text) /\ SubSeq(text, 1, Len(prefix)) = prefix

RECURSIVE SplitFrom(_, _, _, _, _)
\* str::split on a non-empty separator: the segments closed before position
\* i and the segment open at i
SplitFrom(text, separator, i, segments, current) ==
  IF i > Len(text) THEN Append(segments, current)
  ELSE IF starts_with(SubSeq(text, i, Len(text)), separator)
       THEN SplitFrom(text, separator, i + Len(separator), Append(segments, current), << >>)
       ELSE SplitFrom(text, separator, i + 1, segments, Append(current, text[i]))

split(text, separator) == SplitFrom(text, separator, 1, << >>, << >>)

RECURSIVE join(_, _)
\* [String]::join(separator)
join(path, separator) ==
  IF path = << >> THEN << >>
  ELSE IF Len(path) = 1 THEN path[1]
  ELSE path[1] \o separator \o join(Tail(path), separator)

RECURSIVE cmp_path(_, _)
\* Vec<String>::cmp: lexicographic over the segments, a proper prefix first
cmp_path(a, b) ==
  IF a = << >> /\ b = << >> THEN "Equal"
  ELSE IF a = << >> THEN "Less"
  ELSE IF b = << >> THEN "Greater"
  ELSE IF cmp_string(Head(a), Head(b)) # "Equal" THEN cmp_string(Head(a), Head(b))
  ELSE cmp_path(Tail(a), Tail(b))

\* index.entry(card.deck_path).or_default().push(card), card by card
build_topic_index(cards) ==
  CollectedMap([ path \in { cards[i].deck_path : i \in DOMAIN cards } |->
                   SelectSeq(cards, LAMBDA card : card.deck_path = path) ])

\* fault: the empty path is listed like any other
list_available_topics_with_empty(cards) ==
  LET list == SetToSeq({ cards[i].deck_path : i \in DOMAIN cards })
  IN sort_by(list,
       Collected([ j \in 1..Len(list) |-> Collected([ i \in 1..Len(list) |->
                    cmp_path(list[j], list[i]) ]) ]))

\* set.into_iter().collect() then list.sort()
list_available_topics(cards) ==
  LET set == { cards[i].deck_path : i \in DOMAIN cards } \ { << >> }
      list == SetToSeq(set)
  IN sort_by(list,
       Collected([ j \in 1..Len(list) |-> Collected([ i \in 1..Len(list) |->
                    cmp_path(list[j], list[i]) ]) ]))

\* the most suggestions an unknown topic is answered with
SuggestionLimit == 5

\* the two failures of resolve_topic_string, by the parts of their message
EmptyTopicError == << "Topic cannot be empty; provide a valid deck path." >>
UnknownTopicError(wanted, suggestions) ==
  << "Unknown topic: ", wanted,
     IF suggestions = << >> THEN << "No topics available." >>
     ELSE << "Did you mean one of:", suggestions >> >>

\* fault: the keys in descending order
ByStringDescending(known_topics, topic_separator) ==
  LET keys == SetToSeq({ join(known_topics[i], topic_separator) : i \in DOMAIN known_topics })
  IN sort_by(keys,
       Collected([ j \in 1..Len(keys) |-> Collected([ i \in 1..Len(keys) |->
                    cmp_string(keys[i], keys[j]) ]) ]))

\* the keys of by_string in the order the BTreeMap yields them
ByString(known_topics, topic_separator) ==
  LET keys == SetToSeq({ join(known_topics[i], topic_separator) : i \in DOMAIN known_topics })
  IN sort_by(keys,
       Collected([ j \in 1..Len(keys) |-> Collected([ i \in 1..Len(keys) |->
                    cmp_string(keys[j], keys[i]) ]) ]))

\* fault: the segments are not trimmed
TopicDeckPathUntrimmed(topic_text, topic_separator) ==
  IF trim(topic_text) = << >> THEN << >>
  ELSE split(topic_text, topic_separator)

\* topic_text split on the separator, every segment trimmed
TopicDeckPath(topic_text, topic_separator) ==
  IF trim(topic_text) = << >> THEN << >>
  ELSE LET segments == split(topic_text, topic_separator)
       IN Collected([ i \in 1..Len(segments) |-> trim(segments[i]) ])

resolve_topic_string(topic_text, topic_separator, known_topics) ==
  LET deck_path == TopicDeckPath(topic_text, topic_separator)
  IN IF deck_path = << >> THEN Err(EmptyTopicError)
     ELSE IF \E i \in DOMAIN known_topics : known_topics[i] = deck_path THEN Ok(deck_path)
     ELSE LET by_string == ByString(known_topics, topic_separator)
              wanted == join(deck_path, topic_separator)
              prefixed == take(SelectSeq(by_string,
                                 LAMBDA candidate : starts_with(candidate, deck_path[1])),
                               SuggestionLimit)
              suggestions == IF prefixed = << >> THEN take(by_string, SuggestionLimit)
                             ELSE prefixed
          IN Err(UnknownTopicError(wanted, suggestions))

\* fault: only the first segment is compared
path_starts_with_first_segment(path, prefix) ==
  IF Len(prefix) > Len(path) THEN FALSE
  ELSE prefix = << >> \/ path[1] = prefix[1]

\* True if `path` has `prefix` as its leading segments
path_starts_with(path, prefix) ==
  IF Len(prefix) > Len(path) THEN FALSE
  ELSE \A index \in 1..Len(prefix) : path[index] = prefix[index]

\* the paths of the index whose cards the subtree walk takes
SubtreePaths(topic_index, root_topic) ==
  { path \in DOMAIN topic_index : path_starts_with(path, root_topic) }

RECURSIVE ExtendFrom(_, _, _, _)
\* results.extend(cards) for the paths from position i of the walk on
ExtendFrom(topic_index, order, i, results) ==
  IF i > Len(order) THEN results
  ELSE ExtendFrom(topic_index, order, i + 1, results \o topic_index[order[i]])

\* fault: the subtree is walked whatever include_subtree says
collect_subtree_candidates_always_subtree(topic_index, root_topic, include_subtree, order) ==
  ExtendFrom(topic_index, order, 1, << >>)

\* `order` is the order in which the HashMap iterator yields the paths taken
collect_subtree_candidates(topic_index, root_topic, include_subtree, order) ==
  IF ~include_subtree
  THEN IF root_topic \in DOMAIN topic_index THEN topic_index[root_topic] ELSE << >>
  ELSE ExtendFrom(topic_index, order, 1, << >>)

(***************************************************************************)
(* normalise.rs                                                            *)
(***************************************************************************)
RECURSIVE StripFrom(_, _, _, _)
\* the loop of strip_html_tags from character i on
StripFrom(input_text_, i, inside_tag, output_text) ==
  IF i > Len(input_text_) THEN output_text
  ELSE LET character == input_text_[i]
       IN CASE character = "<" -> StripFrom(input_text_, i + 1, TRUE, output_text)
            [] character = ">" -> StripFrom(input_text_, i + 1, FALSE, output_text)
            [] OTHER ->
                 StripFrom(input_text_, i + 1, inside_tag,
                           IF ~inside_tag THEN Append(output_text, character)
                           ELSE output_text)

strip_html_tags(input_text_) == StripFrom(input_text_, 1, FALSE, << >>)

\* char::to_digit(36) of a character of Characters; 36 where it is no digit
\* in any radix
DigitValue(c) ==
  CASE c = "1" -> 1 [] c = "2" -> 2 [] c = "3" -> 3 [] c = "7" -> 7 [] c = "9" -> 9
    [] c \in {"a", "A"} -> 10 [] c \in {"b", "B"} -> 11 [] c = "c" -> 12
    [] c = "d" -> 13 [] c \in {"e", "E"} -> 14 [] c = "f" -> 15 [] c = "g" -> 16
    [] c = "i" -> 18 [] c = "l" -> 21 [] c = "o" -> 24 [] c = "t" -> 29
    [] c = "x" -> 33 [] OTHER -> 36

RECURSIVE DigitsValue(_, _, _)
DigitsValue(digits, radix, value) ==
  IF digits = << >> THEN value
  ELSE DigitsValue(Tail(digits), radix, value * radix + DigitValue(Head(digits)))

\* u32::from_str_radix (str::parse::<u32> is radix 10): one optional "+",
\* then at least one digit of the radix; Option for Result.  The entity
\* texts met here are too short for the overflow error.
from_str_radix(text, radix) ==
  LET digits == IF text # << >> /\ Head(text) = "+" THEN Tail(text) ELSE text
  IN IF digits # << >> /\ \A i \in DOMAIN digits : DigitValue(digits[i]) < radix
     THEN Some(DigitsValue(digits, radix, 0))
     ELSE None

\* char::from_u32: None for a surrogate and beyond U+10FFFF
from_u32(code_point) ==
  IF (code_point >= 55296 /\ code_point <= 57343) \/ code_point > 1114111
  THEN None
  ELSE Some(CHOOSE c \in Characters : CodePoint(c) = code_point)

\* named_map of decode_basic_entities
named_map ==
  ( <<"a", "m", "p">> :> "&" ) @@ ( <<"l", "t">> :> "<" ) @@ ( <<"g", "t">> :> ">" )
    @@ ( <<"q", "u", "o", "t">> :> "\"" ) @@ ( <<"#", "3", "9">> :> "'" )

\* what decode_basic_entities pushes when an entity is closed by ";"
DecodeEntity(entity_text) ==
  LET undecoded == <<"&">> \o entity_text \o <<";">>
      decoded(code_point) ==
        IF from_u32(code_point) # None THEN from_u32(code_point) ELSE undecoded
  IN IF starts_with(entity_text, <<"#">>)
     THEN LET stripped == Tail(entity_text)
          IN IF from_str_radix(stripped, 10) # None
             THEN decoded(from_str_radix(stripped, 10)[1])
             ELSE IF starts_with(stripped, <<"x">>) \/ starts_with(stripped, <<"X">>)
                  THEN IF from_str_radix(Tail(stripped), 16) # None
                       THEN decoded(from_str_radix(Tail(stripped), 16)[1])
                       ELSE undecoded
                  ELSE undecoded
     ELSE IF entity_text \in DOMAIN named_map
          THEN <<named_map[entity_text]>>
          ELSE undecoded

RECURSIVE DecodeFrom(_, _, _, _, _)
\* the loop of decode_basic_entities from character i on, and what follows it
DecodeFrom(input_text_, i, inside_entity, entity_buffer, output_text) ==
  IF i > Len(input_text_)
  THEN IF inside_entity THEN output_text \o <<"&">> \o entity_buffer ELSE output_text
  ELSE LET character == input_text_[i]
       IN IF character = "&"
          THEN DecodeFrom(input_text_, i + 1, TRUE, << >>, output_text)
          ELSE IF inside_entity
               THEN IF character = ";"
                    THEN DecodeFrom(input_text_, i + 1, FALSE, entity_buffer,
                                    output_text \o DecodeEntity(entity_buffer))
                    ELSE DecodeFrom(input_text_, i + 1, TRUE,
                                    Append(entity_buffer, character), output_text)
               ELSE DecodeFrom(input_text_, i + 1, FALSE, entity_buffer,
                               Append(output_text, character))

decode_basic_entities(input_text_) == DecodeFrom(input_text_, 1, FALSE, << >>, << >>)

\* str::to_lowercase
to_lowercase(text) == [i \in DOMAIN text |-> ToLowercase(text[i])]

normalise_for_matching(input_text_) ==
  LET without_tags == strip_html_tags(input_text_)
      decoded_text == decode_basic_entities(without_tags)
      lowercased_text == to_lowercase(decoded_text)
  IN trim(lowercased_text)

(***************************************************************************)
(* io_decks.rs                                                             *)
(*                                                                         *)
(* A deck file is the sequence of its lines (str::lines), a line a text;   *)
(* a file that cannot be read is None.  A file is named by its position    *)
(* in the sorted list of deck files.                                       *)
(***************************************************************************)
TAB_DELIMITER == "\t"

\* the columns a record needs
ExpectedColumns == 5

InvalidRecord(file_path, line_number, reason, raw_line) ==
  [file_path |-> file_path, line_number |-> line_number, reason |-> reason,
   raw_line |-> raw_line]

\* the body of the loop of read_deck_file for one line: the cards and the
\* invalid records it pushes
ReadLine(file_path, line_number, line_text) ==
  LET nothing == [cards |-> << >>, invalid_records |-> << >>]
      invalid(reason) ==
        [cards |-> << >>,
         invalid_records |-> << InvalidRecord(file_path, line_number, reason, line_text) >>]
      columns == split(line_text, <<TAB_DELIMITER>>)
      guid_text == trim(columns[1])
      deck_path_text == trim(columns[3])
      question_html == trim(columns[4])
      answer_html == trim(columns[5])
      deck_path ==
        IF deck_path_text = << >> THEN << >>
        ELSE LET segments == split(deck_path_text, <<":", ":">>)
             IN [k \in DOMAIN segments |-> trim(segments[k])]
  IN IF line_text = << >> \/ Head(line_text) = "#" THEN nothing
     ELSE IF Len(columns) < ExpectedColumns
     THEN invalid(<<"Expected at least 5 columns, found ", Len(columns)>>)
     ELSE IF guid_text = << >> THEN invalid(<<"Empty GUID">>)
     ELSE IF question_html = << >> \/ answer_html = << >>
     THEN invalid(<<"Empty question or answer">>)
     ELSE [cards |-> << [guid |-> guid_text,
                         question_text |-> normalise_for_matching(question_html),
                         answer_raw |-> answer_html,
                         deck_path |-> deck_path] >>,
           invalid_records |-> << >>]

RECURSIVE ReadLinesFrom(_, _, _, _, _)
ReadLinesFrom(file_path, lines, i, cards, invalid_records) ==
  IF i > Len(lines) THEN [cards |-> cards, invalid_records |-> invalid_records]
  ELSE LET read == ReadLine(file_path, i, lines[i])
       IN ReadLinesFrom(file_path, lines, i + 1, cards \o read.cards,
                        invalid_records \o read.invalid_records)

\* read_deck_file of a file that can be read, whose lines are `lines`
read_deck_file(file_path, lines) == ReadLinesFrom(file_path, lines, 1, << >>, << >>)

RECURSIVE LoadFrom(_, _, _, _)
\* the loop of load_decks from file i on
LoadFrom(files, i, cards, invalid_records) ==
  IF i > Len(files) THEN [cards |-> cards, invalid_records |-> invalid_records]
  ELSE IF files[i] # None
       THEN LET read == read_deck_file(i, files[i][1])
            IN LoadFrom(files, i + 1, cards \o read.cards,
                        invalid_records \o read.invalid_records)
       ELSE LoadFrom(files, i + 1, cards,
                     Append(invalid_records,
                            InvalidRecord(i, 0, <<"Unreadable file">>, << >>)))

\* load_decks over the deck files list_deck_files found
load_decks(files) == LoadFrom(files, 1, << >>, << >>)

(***************************************************************************)
(* Bounds and input pools                                                  *)
(***************************************************************************)
\* characters of a text handed to the tokeniser alone
MaxLen == 4
\* candidate cards of a corpus
MaxCards == 2
\* largest top_k requested
MaxTopK == 2

\* config.rs: default_min_token_length, default_remove_stopwords
DefaultMinTokenLength == 2
DefaultParserConfig ==
  [min_token_length |-> DefaultMinTokenLength, remove_stopwords |-> TRUE]

\* the characters of the texts handed to the tokeniser alone
TokeniserAlphabet == {"a", "A", "7", " ", "U+00C9", "U+0663"}

RECURSIVE TextsUpTo(_, _)
\* all texts of at most n characters over an alphabet
TextsUpTo(alphabet, n) ==
  IF n = 0 THEN { << >> }
  ELSE LET shorter == TextsUpTo(alphabet, n - 1)
       IN shorter \cup { Append(t, c) : t \in shorter, c \in alphabet }

\* parser configurations and stopword sets (lower-cased by load_stopwords)
\* the tokeniser is tried with
TokeniserConfigs ==
  [min_token_length : {1, 2, 3}, remove_stopwords : BOOLEAN]
TokeniserStopwordSets == SUBSET { <<"a">>, <<"a", "a">> }

\* question texts as the deck loader leaves them (lower-cased, trimmed)
DocTexts ==
  { <<"a", "b">>,                                      \* ab
    <<"a", "b", " ", "c", "d">>,                       \* ab cd
    <<"c", "d", " ", "c", "d", " ", "e", "f">>,        \* cd cd ef
    <<"o", "f">> }                                     \* of (a stopword)

\* query texts as typed
QueryTexts ==
  { <<"a", "b">>,                                      \* ab
    <<"A", "B", " ", "c", "d">>,                       \* AB cd
    <<"c", "d", " ", "o", "f", " ", "e", "f", "?", "a", "b">>,  \* cd of ef?ab
    <<"f", "e">>,                                      \* fe (not in any card)
    <<"?">> }                                          \* no token at all

Guids == { <<"g", "2">>, <<"g", "1", "1">> }
ScoringStopwords == { <<"o", "f">> }

Cards ==
  [guid : Guids, question_text : DocTexts, answer_raw : { <<"a">> }, deck_path : { << <<"A">> >> }]

RECURSIVE CorporaUpTo(_)
\* the card lists of at most n cards
CorporaUpTo(n) ==
  IF n = 0 THEN { << >> }
  ELSE LET shorter == CorporaUpTo(n - 1)
       IN shorter \cup { Append(cs, c) : cs \in shorter, c \in Cards }

(***************************************************************************)
(* State                                                                   *)
(***************************************************************************)
VARIABLES
  parser_config,           \* ParserConfig: min_token_length, remove_stopwords
  stopword_set,            \* the loaded stopword set
  input_text,              \* tokeniser alone: the text to tokenise
  filtered_tokens,         \* tokeniser alone: Some(result of tokenise)
  token_set,               \* tokeniser alone: Some(result of tokenise_to_set)
  candidate_cards,         \* the candidate pool the index is built over
  prepared_keyword_index,  \* Option<Vec<PreparedQuestion>>
  tfidf_index,             \* Option<TfidfIndex>
  query_text,              \* the query of the scoring calls
  top_k,                   \* the top_k of the scoring calls
  scored_hits,             \* scored_hits of the last scoring call, after its sort
  answer_hits,             \* Some(the list the last scoring call returned)
  all_cards,               \* the cards the deck loader handed over
  known_topics,            \* Some(result of list_available_topics)
  topic_text,              \* the topic asked for, as typed
  topic_separator,         \* ParserConfig.topic_separator
  resolved_root_topic,     \* Some(result of resolve_topic_string)
  topic_index,             \* Some(result of build_topic_index)
  root_topic,              \* the root collect_subtree_candidates is called with
  include_subtree,         \* its include_subtree argument
  deck_files,              \* the deck files load_decks reads
  all_invalid_records,     \* the invalid records load_decks returned
  decoded_text,            \* Some(result of decode_basic_entities)
  algorithm_name,          \* --algo
  is_interactive,          \* --interactive
  warmup_count,            \* --warmup
  single_query_text,       \* --query, an Option
  stdin,                   \* what the reads of standard input still to come return
  input_buffer,            \* the line read_line left in input_buffer
  warmups_left,            \* warm-up calls run_single_query has still to make
  scorer_calls,            \* the scorers called so far, in order
  index_builds,            \* the indexes built so far, in order
  timing_printed,          \* the final timing line is printed
  pc                       \* where the run is

vars == <<parser_config, stopword_set, input_text, filtered_tokens, token_set,
          candidate_cards, prepared_keyword_index, tfidf_index, query_text,
          top_k, scored_hits, answer_hits, all_cards, known_topics, topic_text,
          topic_separator, resolved_root_topic, topic_index, root_topic,
          include_subtree, deck_files, all_invalid_records, decoded_text,
          algorithm_name,
          is_interactive, warmup_count, single_query_text, stdin, input_buffer,
          warmups_left, scorer_calls, index_builds, timing_printed, pc>>

tokeniser_vars == <<input_text, filtered_tokens, token_set>>
scoring_vars == <<candidate_cards, prepared_keyword_index, tfidf_index, query_text,
                  top_k, scored_hits, answer_hits>>

topic_vars == <<all_cards, known_topics, topic_text, topic_separator,
                resolved_root_topic, topic_index, root_topic, include_subtree>>

loader_vars == <<deck_files, all_invalid_records, decoded_text>>

cli_vars == <<algorithm_name, is_interactive, warmup_count, single_query_text, stdin,
              input_buffer, warmups_left, scorer_calls, index_builds, timing_printed>>

\* the driver's variables when a function is run on its own
NoCli ==
  /\ algorithm_name = ""
  /\ is_interactive = FALSE
  /\ warmup_count = 0
  /\ single_query_text = << >>
  /\ stdin = << >>
  /\ input_buffer = << >>
  /\ warmups_left = 0
  /\ scorer_calls = << >>
  /\ index_builds = << >>
  /\ timing_printed = FALSE

\* the loader variables when the cards are given
NoLoader ==
  /\ deck_files = << >>
  /\ all_invalid_records = << >>
  /\ decoded_text = None

\* the topic variables when no topic is asked for
NoTopics ==
  /\ all_cards = << >>
  /\ known_topics = None
  /\ topic_text = << >>
  /\ topic_separator = << >>
  /\ resolved_root_topic = None
  /\ topic_index = None
  /\ root_topic = << >>
  /\ include_subtree = FALSE

\* the scoring variables before any corpus is loaded
NoScoring ==
  /\ candidate_cards = << >>
  /\ prepared_keyword_index = None
  /\ tfidf_index = None
  /\ query_text = << >>
  /\ top_k = 0
  /\ scored_hits = << >>
  /\ answer_hits = None

\* the tokeniser variables when the tokeniser is not run alone
NoTokeniser ==
  /\ input_text = << >>
  /\ filtered_tokens = None
  /\ token_set = None

(***************************************************************************)
(* The tokeniser on its own: tokenise and tokenise_to_set applied to a     *)
(* text, a stopword set and a configuration.                               *)
(***************************************************************************)
InitTokeniser ==
  /\ parser_config \in TokeniserConfigs
  /\ stopword_set \in TokeniserStopwordSets
  /\ input_text \in TextsUpTo(TokeniserAlphabet, MaxLen)
  /\ filtered_tokens = None
  /\ token_set = None
  /\ NoScoring
  /\ NoTopics
  /\ NoLoader
  /\ NoCli
  /\ pc = "input"

Tokenise ==
  /\ pc = "input"
  /\ filtered_tokens' = Some(tokenise(input_text, stopword_set, parser_config))
  /\ pc' = "tokenised"
  /\ UNCHANGED <<parser_config, stopword_set, input_text, token_set, scoring_vars,
                 topic_vars, loader_vars, cli_vars>>

TokeniseToSet ==
  /\ pc = "input"
  /\ token_set' = Some(tokenise_to_set(input_text, stopword_set, parser_config))
  /\ pc' = "tokenised"
  /\ UNCHANGED <<parser_config, stopword_set, input_text, filtered_tokens, scoring_vars,
                 topic_vars, loader_vars, cli_vars>>

NextTokeniser == Tokenise \/ TokeniseToSet

SpecTokeniser == InitTokeniser /\ [][NextTokeniser]_vars

(***************************************************************************)
(* The scorers: one index is built over the candidate cards, then scoring  *)
(* calls are made against it.                                              *)
(***************************************************************************)
InitScoring(corpora, queries, ks) ==
  /\ parser_config = DefaultParserConfig
  /\ stopword_set = ScoringStopwords
  /\ NoTokeniser
  /\ NoTopics
  /\ candidate_cards \in corpora
  /\ prepared_keyword_index = None
  /\ tfidf_index = None
  /\ query_text \in queries
  /\ top_k \in ks
  /\ scored_hits = << >>
  /\ answer_hits = None
  /\ NoLoader
  /\ NoCli
  /\ pc = "loaded"

Init == InitScoring(CorporaUpTo(MaxCards), QueryTexts, 0..MaxTopK)

PrepareKeywordIndex ==
  /\ pc = "loaded"
  /\ prepared_keyword_index' =
       Some(prepare_keyword_index(candidate_cards, stopword_set, parser_config))
  /\ pc' = "indexed"
  /\ UNCHANGED <<parser_config, stopword_set, tokeniser_vars, loader_vars, cli_vars, topic_vars, candidate_cards,
                 tfidf_index, query_text, top_k, scored_hits, answer_hits>>

BuildTfidfIndex ==
  /\ pc = "loaded"
  /\ \E index \in build_tfidf_index(candidate_cards, stopword_set, parser_config) :
       tfidf_index' = Some(index)
  /\ pc' = "indexed"
  /\ UNCHANGED <<parser_config, stopword_set, tokeniser_vars, loader_vars, cli_vars, topic_vars, candidate_cards,
                 prepared_keyword_index, query_text, top_k, scored_hits, answer_hits>>

ScoreKeywordOverlap ==
  /\ pc \in {"indexed", "scored"}
  /\ prepared_keyword_index # None
  /\ scored_hits' = KeywordScoredHits(query_text, prepared_keyword_index[1],
                                      stopword_set, parser_config)
  /\ answer_hits' = Some(score_keyword_overlap(query_text, prepared_keyword_index[1],
                                               stopword_set, parser_config, top_k))
  /\ pc' = "scored"
  /\ UNCHANGED <<parser_config, stopword_set, tokeniser_vars, loader_vars, cli_vars, topic_vars, candidate_cards,
                 prepared_keyword_index, tfidf_index, query_text, top_k>>

ScoreTfidf ==
  /\ pc \in {"indexed", "scored"}
  /\ tfidf_index # None
  /\ \E order \in QueryOrders(query_text, tfidf_index[1], stopword_set, parser_config) :
       /\ scored_hits' = TfidfScoredHits(query_text, tfidf_index[1], stopword_set,
                                         parser_config, order)
       /\ answer_hits' = Some(score_tfidf(query_text, tfidf_index[1], stopword_set,
                                          parser_config, top_k, order))
  /\ pc' = "scored"
  /\ UNCHANGED <<parser_config, stopword_set, tokeniser_vars, loader_vars, cli_vars, topic_vars, candidate_cards,
                 prepared_keyword_index, tfidf_index, query_text, top_k>>

Next == PrepareKeywordIndex \/ BuildTfidfIndex \/ ScoreKeywordOverlap \/ ScoreTfidf

Spec == Init /\ [][Next]_vars

(***************************************************************************)
(* Repeated scoring calls against an index over three cards, the smallest  *)
(* corpus in which a query has three terms of different weights.           *)
(***************************************************************************)
RepeatDocTexts ==
  { <<"a", "b">>,                                      \* ab
    <<"c", "d">>,                                      \* cd
    <<"a", "b", " ", "c", "d", " ", "e", "f">> }       \* ab cd ef

RepeatCorpora ==
  { << [guid |-> <<"g", "1", "1">>, question_text |-> t1, answer_raw |-> <<"a">>, deck_path |-> << <<"A">> >>],
       [guid |-> <<"g", "2">>, question_text |-> t2, answer_raw |-> <<"a">>, deck_path |-> << <<"A">> >>],
       [guid |-> <<"g", "7">>, question_text |-> t3, answer_raw |-> <<"a">>, deck_path |-> << <<"A">> >>] >> :
    t1 \in RepeatDocTexts, t2 \in RepeatDocTexts, t3 \in RepeatDocTexts }

InitRepeat == InitScoring(RepeatCorpora, QueryTexts, 0..MaxTopK)

SpecRepeat == InitRepeat /\ [][Next]_vars

(***************************************************************************)
(* Topics: the topics of the loaded cards are listed and a topic text is   *)
(* resolved against them.                                                  *)
(***************************************************************************)
\* most cards of a deck the topics are listed from
MaxDeckCards == 7

TopicCard(guid, deck_path) ==
  [guid |-> guid, question_text |-> <<"a", "b">>, answer_raw |-> <<"a">>,
   deck_path |-> deck_path]

\* the cards the decks are drawn from, in file order
TopicDeck ==
  << TopicCard(<<"1">>, << <<"B">> >>),
     TopicCard(<<"2">>, << <<"A">>, <<"B">> >>),
     TopicCard(<<"7">>, << <<"A", " ", "B">> >>),
     TopicCard(<<"1", "1">>, << >>),
     TopicCard(<<"1", "2">>, << <<"A">>, <<"B">>, <<"A">> >>),
     TopicCard(<<"1", "7">>, << <<"A">> >>),
     TopicCard(<<"2", "1">>, << <<"A">>, <<"B">> >>),
     TopicCard(<<"2", "2">>, << <<"A", "B">> >>),
     TopicCard(<<"2", "7">>, << <<"A">>, <<"A">> >>) >>

\* the cards of a deck at the given positions, in deck order
Subsequence(deck, positions) ==
  Collected([ k \in 1..Cardinality(positions) |->
    deck[CHOOSE i \in positions : Cardinality({ j \in positions : j < i }) = k - 1] ])

TopicCorpora ==
  { Subsequence(TopicDeck, positions) :
      positions \in { chosen \in SUBSET (DOMAIN TopicDeck) :
                        Cardinality(chosen) <= MaxDeckCards } }

\* topic texts as typed, and the separators configured
TopicTexts ==
  { << >>,
    <<" ">>,
    <<"A">>,
    <<"A", ":", ":", "B">>,
    <<" ", "A", " ", ":", ":", " ", "B", " ">>,
    <<"A", ":", ":">>,
    <<"A", ":", "B">>,
    <<"A", ":", ":", "b">>,
    <<"b">>,
    <<"A", "B">> }
TopicSeparators == { <<":", ":">>, <<":">> }

InitTopics ==
  /\ parser_config = DefaultParserConfig
  /\ stopword_set = ScoringStopwords
  /\ NoTokeniser
  /\ NoScoring
  /\ all_cards \in TopicCorpora
  /\ known_topics = None
  /\ topic_text = << >>
  /\ topic_separator = << >>
  /\ resolved_root_topic = None
  /\ topic_index = None
  /\ root_topic = << >>
  /\ include_subtree = FALSE
  /\ NoLoader
  /\ NoCli
  /\ pc = "cards"

ListAvailableTopics ==
  /\ pc = "cards"
  /\ known_topics' = Some(list_available_topics(all_cards))
  /\ pc' = "listed"
  /\ UNCHANGED <<parser_config, stopword_set, tokeniser_vars, loader_vars, cli_vars, scoring_vars, all_cards,
                 topic_text, topic_separator, resolved_root_topic, topic_index,
                 root_topic, include_subtree>>

ResolveTopicString ==
  /\ pc = "listed"
  /\ \E text \in TopicTexts, separator \in TopicSeparators :
       /\ topic_text' = text
       /\ topic_separator' = separator
       /\ resolved_root_topic' = Some(resolve_topic_string(text, separator, known_topics[1]))
  /\ pc' = "resolved"
  /\ UNCHANGED <<parser_config, stopword_set, tokeniser_vars, loader_vars, cli_vars, scoring_vars, all_cards,
                 known_topics, topic_index, root_topic, include_subtree>>

NextTopics == ListAvailableTopics \/ ResolveTopicString

SpecTopics == InitTopics /\ [][NextTopics]_vars

(***************************************************************************)
(* Candidates: the topic index is built over the loaded cards and the      *)
(* cards of a root topic are collected from it.                            *)
(***************************************************************************)
\* most cards of a corpus the candidates are collected from
MaxPathCards == 3

\* the deck paths of those cards, and the guid of the card at each position
CardPaths ==
  { << >>,
    << <<"A">> >>,
    << <<"A">>, <<"B">> >>,
    << <<"A">>, <<"B">>, <<"A">> >>,
    << <<"A">>, <<"A">> >>,
    << <<"B">> >> }
PositionGuids == << <<"1">>, <<"2">>, <<"7">>, <<"1", "1">>, <<"1", "2">> >>

RECURSIVE PathCorporaUpTo(_)
\* the card lists of at most n cards
PathCorporaUpTo(n) ==
  IF n = 0 THEN { << >> }
  ELSE LET shorter == PathCorporaUpTo(n - 1)
       IN shorter \cup { Append(cs, TopicCard(PositionGuids[Len(cs) + 1], path)) :
                           cs \in shorter, path \in CardPaths }

\* the roots asked for
RootTopics ==
  { << >>,
    << <<"A">> >>,
    << <<"A">>, <<"B">> >>,
    << <<"B">>, <<"A">> >> }

InitSubtree ==
  /\ parser_config = DefaultParserConfig
  /\ stopword_set = ScoringStopwords
  /\ NoTokeniser
  /\ NoScoring
  /\ all_cards \in PathCorporaUpTo(MaxPathCards)
  /\ known_topics = None
  /\ topic_text = << >>
  /\ topic_separator = << >>
  /\ resolved_root_topic = None
  /\ topic_index = None
  /\ root_topic = << >>
  /\ include_subtree = FALSE
  /\ NoLoader
  /\ NoCli
  /\ pc = "cards"

BuildTopicIndex ==
  /\ pc = "cards"
  /\ topic_index' = Some(build_topic_index(all_cards))
  /\ pc' = "built"
  /\ UNCHANGED <<parser_config, stopword_set, tokeniser_vars, loader_vars, cli_vars, scoring_vars, all_cards,
                 known_topics, topic_text, topic_separator, resolved_root_topic,
                 root_topic, include_subtree>>

CollectSubtreeCandidates ==
  /\ pc = "built"
  /\ \E root \in RootTopics, include \in BOOLEAN :
       \E order \in Orderings(SubtreePaths(topic_index[1], root)) :
         /\ root_topic' = root
         /\ include_subtree' = include
         /\ candidate_cards' = collect_subtree_candidates(topic_index[1], root, include, order)
  /\ pc' = "collected"
  /\ UNCHANGED <<parser_config, stopword_set, tokeniser_vars, loader_vars, cli_vars, prepared_keyword_index,
                 tfidf_index, query_text, top_k, scored_hits, answer_hits, all_cards,
                 known_topics, topic_text, topic_separator, resolved_root_topic,
                 topic_index>>

NextSubtree == BuildTopicIndex \/ CollectSubtreeCandidates

SpecSubtree == InitSubtree /\ [][NextSubtree]_vars

(***************************************************************************)
(* The deck loader: load_decks over deck files whose lines are drawn from  *)
(* the records below.                                                      *)
(***************************************************************************)
\* size of the deck files read: each file counts one, and one per line
MaxDeckSize == 4

\* a record line: its columns joined by tabs
RecordLine(columns) == join(columns, <<TAB_DELIMITER>>)

DeckLines ==
  { <<"#", "a">>,                                                \* header line
    << >>,                                                       \* empty line
    RecordLine(<< <<"1">>, <<"a">>, <<"A", ":", ":", "B">>,
                  <<"A", " ", "b">>, <<"a">> >>),                \* a plain record
    RecordLine(<< <<"2">>, <<"a">>, << >>,
                  <<"<", "b", ">", "A", "<", "b", ">">>, <<"<", "b", ">">> >>),
    RecordLine(<< <<"3">>, <<"a">>, <<"A">>,
                  <<"&", "l", "t", ";", "b">>, <<"a">> >>),      \* an entity
    RecordLine(<< <<"7">>, <<"a">>, <<"A">>,
                  <<" ", "<", "b", ">">>, <<"a">> >>),           \* question: a tag only
    RecordLine(<< <<" ">>, <<"a">>, <<"A">>, <<"a">>, <<"a">> >>),   \* blank GUID
    RecordLine(<< <<"1">>, <<"a">>, <<"A">>, <<" ">>, <<"a">> >>),   \* blank question
    RecordLine(<< <<"1">>, <<"a">>, <<"A">>, <<"a">>, << >> >>),     \* no answer
    RecordLine(<< <<"1">>, <<"a">>, <<"A">>, <<"a">> >>) }           \* four columns

RECURSIVE LinesOfLength(_)
LinesOfLength(n) ==
  IF n = 0 THEN { << >> }
  ELSE { Append(lines, line) : lines \in LinesOfLength(n - 1), line \in DeckLines }

\* the deck files of size n: n - 1 lines, or (size one) a file that cannot
\* be read
FilesOfSize(n) ==
  { Some(lines) : lines \in LinesOfLength(n - 1) } \cup (IF n = 1 THEN { None } ELSE { })

RECURSIVE DeckFilesOfSize(_)
\* the lists of deck files whose sizes add up to n
DeckFilesOfSize(n) ==
  IF n = 0 THEN { << >> }
  ELSE UNION { { <<file>> \o files : file \in FilesOfSize(k),
                                     files \in DeckFilesOfSize(n - k) } : k \in 1..n }

InitLoader ==
  /\ parser_config = DefaultParserConfig
  /\ stopword_set = ScoringStopwords
  /\ NoTokeniser
  /\ NoScoring
  /\ NoTopics
  /\ deck_files \in UNION { DeckFilesOfSize(n) : n \in 0..MaxDeckSize }
  /\ all_invalid_records = << >>
  /\ decoded_text = None
  /\ NoCli
  /\ pc = "files"

LoadDecks ==
  /\ pc = "files"
  /\ LET loaded == load_decks(deck_files)
     IN /\ all_cards' = loaded.cards
        /\ all_invalid_records' = loaded.invalid_records
  /\ pc' = "read"
  /\ UNCHANGED <<parser_config, stopword_set, tokeniser_vars, scoring_vars, cli_vars, deck_files,
                 decoded_text,
                 known_topics, topic_text, topic_separator, resolved_root_topic,
                 topic_index, root_topic, include_subtree>>

NextLoader == LoadDecks

SpecLoader == InitLoader /\ [][NextLoader]_vars

(***************************************************************************)
(* decode_basic_entities on its own, applied to a text                     *)
(***************************************************************************)
\* characters of a text handed to decode_basic_entities alone
MaxEntityLen == 5

\* with these, the character references are &#9; (a tab), &#99; ("c") and
\* &#999; (U+03E7)
EntityAlphabet == {"a", "&", ";", "l", "t", "#", "9"}

InitDecode ==
  /\ parser_config = DefaultParserConfig
  /\ stopword_set = ScoringStopwords
  /\ input_text \in TextsUpTo(EntityAlphabet, MaxEntityLen)
  /\ filtered_tokens = None
  /\ token_set = None
  /\ NoScoring
  /\ NoTopics
  /\ NoLoader
  /\ NoCli
  /\ pc = "input"

DecodeBasicEntities ==
  /\ pc = "input"
  /\ decoded_text' = Some(decode_basic_entities(input_text))
  /\ pc' = "decoded"
  /\ UNCHANGED <<parser_config, stopword_set, tokeniser_vars, scoring_vars, topic_vars,
                 cli_vars, deck_files, all_invalid_records>>

NextDecode == DecodeBasicEntities

SpecDecode == InitDecode /\ [][NextDecode]_vars

(***************************************************************************)
(* The command-line driver, cli.rs run, from the index build on: the       *)
(* candidate pool is chosen and is not empty.  Standard input is the       *)
(* sequence of what the reads still to come return: Ok(line), the line     *)
(* with its newline, or Err; when the sequence is used up the input is at  *)
(* its end, and a read_line returns Ok(0) and leaves input_buffer empty.   *)
(***************************************************************************)
\* reads of standard input before its end
MaxReads == 2
\* largest --warmup
MaxWarmup == 1

\* algorithm_name == "keyword" where the index is built
BuildsKeyword(name) == name = "keyword"

\* fault: the scorer is always the TF-IDF one
DispatchesKeywordNever(name) == FALSE

\* algorithm_name == "keyword" where run_single_query picks the scorer
DispatchesKeyword(name) == name = "keyword"

\* str::eq_ignore_ascii_case
eq_ignore_ascii_case(left, right) ==
  /\ Len(left) = Len(right)
  /\ \A i \in DOMAIN left : ToAsciiLowercase(left[i]) = ToAsciiLowercase(right[i])

CliCorpora ==
  { << [guid |-> <<"g", "2">>, question_text |-> <<"a", "b", " ", "c", "d">>,
        answer_raw |-> <<"a">>, deck_path |-> << <<"A">> >>] >>,
    << [guid |-> <<"g", "1", "1">>, question_text |-> <<"a", "b">>,
        answer_raw |-> <<"a">>, deck_path |-> << <<"A">> >>],
       [guid |-> <<"g", "2">>, question_text |-> <<"c", "d", " ", "c", "d", " ", "e", "f">>,
        answer_raw |-> <<"a">>, deck_path |-> << <<"A">> >>] >> }

StdinReads ==
  { Ok(<<"E", "x", "i", "t", "\n">>),            \* exit, typed with a capital
    Ok(<<" ", "\n">>),                           \* a blank line
    Ok(<<"a", "b", " ", "c", "d", "\n">>),       \* a question
    Err(<<"read error">>) }

RECURSIVE ReadsUpTo(_)
ReadsUpTo(n) ==
  IF n = 0 THEN { << >> }
  ELSE LET shorter == ReadsUpTo(n - 1)
       IN shorter \cup { Append(reads, read) : reads \in shorter, read \in StdinReads }

InitCli ==
  /\ parser_config = DefaultParserConfig
  /\ stopword_set = ScoringStopwords
  /\ NoTokeniser
  /\ NoTopics
  /\ NoLoader
  /\ candidate_cards \in CliCorpora
  /\ prepared_keyword_index = None
  /\ tfidf_index = None
  /\ query_text = << >>
  /\ top_k \in 1..MaxTopK
  /\ scored_hits = << >>
  /\ answer_hits = None
  /\ algorithm_name \in {"keyword", "tfidf"}
  /\ warmup_count \in 0..MaxWarmup
  /\ \/ /\ is_interactive = TRUE
        /\ stdin \in ReadsUpTo(MaxReads)
        /\ single_query_text = None
     \/ /\ is_interactive = FALSE
        /\ stdin = << >>
        /\ single_query_text \in { None, Some(<<"a", "b">>) }
  /\ input_buffer = << >>
  /\ warmups_left = 0
  /\ scorer_calls = << >>
  /\ index_builds = << >>
  /\ timing_printed = FALSE
  /\ pc = "build"

\* cli.rs 175-186
BuildIndex ==
  /\ pc = "build"
  /\ IF BuildsKeyword(algorithm_name)
     THEN /\ prepared_keyword_index' =
               Some(prepare_keyword_index(candidate_cards, stopword_set, parser_config))
          /\ index_builds' = Append(index_builds, "keyword")
          /\ UNCHANGED tfidf_index
     ELSE /\ \E index \in build_tfidf_index(candidate_cards, stopword_set, parser_config) :
               tfidf_index' = Some(index)
          /\ index_builds' = Append(index_builds, "tfidf")
          /\ UNCHANGED prepared_keyword_index
  /\ pc' = "mode"
  /\ UNCHANGED <<parser_config, stopword_set, tokeniser_vars, loader_vars, topic_vars,
                 candidate_cards, query_text, top_k, scored_hits, answer_hits,
                 algorithm_name, is_interactive, warmup_count, single_query_text, stdin,
                 input_buffer, warmups_left, scorer_calls, timing_printed>>

\* cli.rs 203 and 237-240: the interactive loop, the single query, or the
\* error for a missing --query
SelectMode ==
  /\ pc = "mode"
  /\ IF is_interactive
     THEN pc' = "prompt" /\ UNCHANGED <<query_text, warmups_left>>
     ELSE IF single_query_text = None
          THEN pc' = "failed" /\ UNCHANGED <<query_text, warmups_left>>
          ELSE /\ query_text' = single_query_text[1]
               /\ warmups_left' = warmup_count
               /\ pc' = "warmup"
  /\ UNCHANGED <<parser_config, stopword_set, tokeniser_vars, loader_vars, topic_vars,
                 candidate_cards, prepared_keyword_index, tfidf_index, top_k, scored_hits,
                 answer_hits, algorithm_name, is_interactive, warmup_count,
                 single_query_text, stdin, input_buffer, scorer_calls, index_builds,
                 timing_printed>>

\* cli.rs 207-213: input_buffer.clear() and read_line
ReadStdinLine ==
  /\ pc = "prompt"
  /\ IF stdin = << >>
     THEN input_buffer' = << >> /\ pc' = "line" /\ UNCHANGED stdin
     ELSE /\ stdin' = Tail(stdin)
          /\ IF Head(stdin).ok
             THEN input_buffer' = Head(stdin).value[1] /\ pc' = "line"
             ELSE input_buffer' = << >> /\ pc' = "finish"
  /\ UNCHANGED <<parser_config, stopword_set, tokeniser_vars, loader_vars, topic_vars,
                 scoring_vars, algorithm_name, is_interactive, warmup_count,
                 single_query_text, warmups_left, scorer_calls, index_builds,
                 timing_printed>>

\* cli.rs 214-221: exit, a blank line, or a question for run_single_query
HandleLine ==
  /\ pc = "line"
  /\ LET user_query_text == trim(input_buffer)
     IN IF eq_ignore_ascii_case(user_query_text, <<"e", "x", "i", "t">>)
        THEN pc' = "finish" /\ UNCHANGED <<query_text, warmups_left>>
        ELSE IF user_query_text = << >>
             THEN pc' = "prompt" /\ UNCHANGED <<query_text, warmups_left>>
             ELSE /\ query_text' = user_query_text
                  /\ warmups_left' = warmup_count
                  /\ pc' = "warmup"
  /\ UNCHANGED <<parser_config, stopword_set, tokeniser_vars, loader_vars, topic_vars,
                 candidate_cards, prepared_keyword_index, tfidf_index, top_k, scored_hits,
                 answer_hits, algorithm_name, is_interactive, warmup_count,
                 single_query_text, stdin, input_buffer, scorer_calls, index_builds,
                 timing_printed>>

\* cli.rs 283-303: one warm-up call; its result is dropped
WarmupCall ==
  /\ pc = "warmup"
  /\ warmups_left > 0
  /\ IF DispatchesKeyword(algorithm_name)
     THEN /\ scorer_calls' = Append(scorer_calls, "keyword")
          /\ pc' = IF prepared_keyword_index # None THEN "warmup" ELSE "panicked"
     ELSE /\ scorer_calls' = Append(scorer_calls, "tfidf")
          /\ pc' = IF tfidf_index # None THEN "warmup" ELSE "panicked"
  /\ warmups_left' = warmups_left - 1
  /\ UNCHANGED <<parser_config, stopword_set, tokeniser_vars, loader_vars, topic_vars,
                 scoring_vars, algorithm_name, is_interactive, warmup_count,
                 single_query_text, stdin, input_buffer, index_builds, timing_printed>>

\* cli.rs 311-327 and the return to the caller
ScoreQuery ==
  /\ pc = "warmup"
  /\ warmups_left = 0
  /\ IF DispatchesKeyword(algorithm_name)
     THEN /\ scorer_calls' = Append(scorer_calls, "keyword")
          /\ IF prepared_keyword_index # None
             THEN /\ scored_hits' = KeywordScoredHits(query_text, prepared_keyword_index[1],
                                                      stopword_set, parser_config)
                  /\ answer_hits' =
                       Some(score_keyword_overlap(query_text, prepared_keyword_index[1],
                                                  stopword_set, parser_config, top_k))
                  /\ pc' = IF is_interactive THEN "prompt" ELSE "finish"
             ELSE pc' = "panicked" /\ UNCHANGED <<scored_hits, answer_hits>>
     ELSE /\ scorer_calls' = Append(scorer_calls, "tfidf")
          /\ IF tfidf_index # None
             THEN /\ \E order \in QueryOrders(query_text, tfidf_index[1], stopword_set,
                                              parser_config) :
                       /\ scored_hits' = TfidfScoredHits(query_text, tfidf_index[1],
                                                         stopword_set, parser_config, order)
                       /\ answer_hits' =
                            Some(score_tfidf(query_text, tfidf_index[1], stopword_set,
                                             parser_config, top_k, order))
                  /\ pc' = IF is_interactive THEN "prompt" ELSE "finish"
             ELSE pc' = "panicked" /\ UNCHANGED <<scored_hits, answer_hits>>
  /\ UNCHANGED <<parser_config, stopword_set, tokeniser_vars, loader_vars, topic_vars,
                 candidate_cards, prepared_keyword_index, tfidf_index, query_text, top_k,
                 algorithm_name, is_interactive, warmup_count, single_query_text, stdin,
                 input_buffer, warmups_left, index_builds, timing_printed>>

\* cli.rs 258-263
PrintTimings ==
  /\ pc = "finish"
  /\ timing_printed' = TRUE
  /\ pc' = "done"
  /\ UNCHANGED <<parser_config, stopword_set, tokeniser_vars, loader_vars, topic_vars,
                 scoring_vars, algorithm_name, is_interactive, warmup_count,
                 single_query_text, stdin, input_buffer, warmups_left, scorer_calls,
                 index_builds>>

NextCli ==
  \/ BuildIndex \/ SelectMode \/ ReadStdinLine \/ HandleLine
  \/ WarmupCall \/ ScoreQuery \/ PrintTimings

SpecCli == InitCli /\ [][NextCli]_vars

\* the steps of BuildIndex and of ScoreQuery, told by the program counter
\* alone: the index build returns, the scoring call returns
IndexBuildReturns == pc = "build" /\ pc' = "mode"
ScoreQueryReturns ==
  /\ pc = "warmup"
  /\ warmups_left = 0
  /\ pc' \in {"prompt", "finish", "panicked"}

\* the driver is one thread and every call it makes returns: a step that can
\* be taken is taken
SpecCliFair ==
  /\ SpecCli
  /\ WF_pc(IndexBuildReturns)
  /\ WF_vars(SelectMode \/ ReadStdinLine \/ HandleLine \/ WarmupCall \/ PrintTimings)
  /\ WF_pc(ScoreQueryReturns)

(***************************************************************************)
(* Properties                                                              *)
(***************************************************************************)
\* the states after a call of score_keyword_overlap, of score_tfidf, of tokenise
KeywordScored == pc = "scored" /\ prepared_keyword_index # None
TfidfScored == pc = "scored" /\ tfidf_index # None
Tokenised == pc = "tokenised" /\ filtered_tokens # None

\* the token set of the query and the tokens of a hit's question
QueryTokenSet == tokenise_to_set(query_text, stopword_set, parser_config)
HitTokens(hit) == tokenise(hit.question_preview[1], stopword_set, parser_config)
HitOverlap(hit) == Cardinality(Range(HitTokens(hit)) \cap QueryTokenSet)

\* the f32 x is the natural number n
F32IsNat(x, n) ==
  IF n = 0 THEN x = F32Zero
  ELSE /\ x[1] > 0
       /\ IF x[2] <= 0 THEN x[1] = n * 2^(0 - x[2]) ELSE n = x[1] * 2^x[2]

\* a sorts before b, or is b, in the order of the code points
GuidLeq(a, b) ==
  \/ a = b
  \/ \E k \in 1..Len(b) :
       /\ k <= Len(a) + 1
       /\ \A i \in 1..(k - 1) : a[i] = b[i]
       /\ (k = Len(a) + 1 \/ CodePoint(a[k]) < CodePoint(b[k]))

\* the hits of scored_hits that carry the guid and question of a card
HitsOf(guid, question) ==
  { k \in DOMAIN scored_hits :
      /\ scored_hits[k][1].guid = guid
      /\ scored_hits[k][1].question_preview = Some(question) }

\* C1: score_keyword_overlap scores exactly the prepared questions whose
\* token set shares a token with the query's, each with the number of shared
\* tokens as its score (at least 1); the rest are not hits.
C1_KeywordHitsAreTheOverlaps ==
  KeywordScored =>
    LET index == prepared_keyword_index[1]
        shares(i) == index[i].token_set \cap QueryTokenSet # {}
        same(i, j) == /\ index[i].guid = index[j].guid
                      /\ index[i].question_preview = index[j].question_preview
    IN /\ Len(scored_hits) = Cardinality({ i \in DOMAIN index : shares(i) })
       /\ \A i \in DOMAIN index :
            Cardinality(HitsOf(index[i].guid, index[i].question_preview))
              = Cardinality({ j \in DOMAIN index : same(i, j) /\ shares(j) })
       /\ \A k \in DOMAIN scored_hits :
            /\ HitOverlap(scored_hits[k][1]) >= 1
            /\ F32IsNat(scored_hits[k][1].score, HitOverlap(scored_hits[k][1]))

\* a keyword call that scored one card with two shared tokens and left another out
C1_Witness ==
  /\ KeywordScored
  /\ Len(scored_hits) >= 1
  /\ Len(scored_hits) < Len(prepared_keyword_index[1])
  /\ \E k \in DOMAIN scored_hits : HitOverlap(scored_hits[k][1]) = 2

\* C2: the hits score_keyword_overlap returns are in descending score, equal
\* scores in ascending token count of the question, and equal token counts in
\* ascending guid.
C2_KeywordOrder ==
  KeywordScored =>
    LET hits == answer_hits[1]
    IN \A i, j \in DOMAIN hits :
         i < j =>
           \/ F32Lt(hits[j].score, hits[i].score)
           \/ /\ hits[j].score = hits[i].score
              /\ \/ Len(HitTokens(hits[i])) < Len(HitTokens(hits[j]))
                 \/ /\ Len(HitTokens(hits[i])) = Len(HitTokens(hits[j]))
                    /\ GuidLeq(hits[i].guid, hits[j].guid)

\* two returned keyword hits of equal score, the first with fewer tokens
C2_Witness ==
  /\ KeywordScored
  /\ Len(answer_hits[1]) = 2
  /\ answer_hits[1][1].score = answer_hits[1][2].score
  /\ Len(HitTokens(answer_hits[1][1])) < Len(HitTokens(answer_hits[1][2]))

\* C3: score_tfidf makes a document a hit exactly when its stored norm is
\* not zero and its dot product with the query is not zero, which is exactly
\* when it shares a token with the query; every hit's similarity is above 0,
\* and a document whose norm is zero is never a hit.
C3_TfidfHitsShareAToken ==
  TfidfScored =>
    LET index == tfidf_index[1]
        documents == index.documents
        query_map == QueryWeightedMap(tokenise(query_text, stopword_set, parser_config), index)
        shares(i) == DOMAIN documents[i].term_frequencies \cap QueryTokenSet # {}
        dot(i, order) == DotProductFrom(QueryEntries(query_map, order), 1, F32Zero,
                                        documents[i], index.inverse_document_frequency)
        same(i, j) == /\ documents[i].guid = documents[j].guid
                      /\ documents[i].question_preview = documents[j].question_preview
    IN /\ \A i \in DOMAIN documents : \A order \in Orderings(DOMAIN query_map) :
            shares(i) <=> (index.document_l2_norms[i] # F32Zero /\ dot(i, order) # F32Zero)
       /\ Len(scored_hits) = Cardinality({ i \in DOMAIN documents : shares(i) })
       /\ \A i \in DOMAIN documents :
            /\ Cardinality(HitsOf(documents[i].guid, documents[i].question_preview))
                 = Cardinality({ j \in DOMAIN documents : same(i, j) /\ shares(j) })
            /\ index.document_l2_norms[i] = F32Zero =>
                 HitsOf(documents[i].guid, documents[i].question_preview) = {}
       /\ \A k \in DOMAIN scored_hits : F32Lt(F32Zero, scored_hits[k][1].score)

\* a tfidf call over a document that is a hit and one with tokens that is not
C3_Witness ==
  /\ TfidfScored
  /\ Len(scored_hits) = 1
  /\ \E j \in DOMAIN tfidf_index[1].documents :
       /\ tfidf_index[1].document_l2_norms[j] # F32Zero
       /\ HitsOf(tfidf_index[1].documents[j].guid,
                 tfidf_index[1].documents[j].question_preview) = {}

C5_CosineWithinUnitInterval ==
  TfidfScored =>
    \A k \in DOMAIN scored_hits :
      /\ F32Le(F32Zero, scored_hits[k][1].score)
      /\ F32Le(scored_hits[k][1].score, F32One)

\* C6: score_tfidf returns the empty list when the query has no token, and
\* when none of its tokens is in the index's vocabulary, whatever the index.
C6_TfidfEmptyForUnknownQuery ==
  (/\ TfidfScored
   /\ QueryTokenSet \cap DOMAIN tfidf_index[1].inverse_document_frequency = {})
    => (answer_hits = Some(<< >>) /\ scored_hits = << >>)

\* a tfidf call with a query of tokens, none in the vocabulary, over documents
\* with tokens, asked for a hit
C6_Witness ==
  /\ TfidfScored
  /\ QueryTokenSet # {}
  /\ QueryTokenSet \cap DOMAIN tfidf_index[1].inverse_document_frequency = {}
  /\ DOMAIN tfidf_index[1].inverse_document_frequency # {}
  /\ top_k > 0
  /\ answer_hits = Some(<< >>)

\* C7: both scorers return the first top_k hits of the sorted list, all of
\* them when there are fewer, in the sorted order.
C7_ReturnsFirstTopK ==
  pc = "scored" =>
    LET hits == answer_hits[1]
    IN /\ Len(hits) = (IF top_k < Len(scored_hits) THEN top_k ELSE Len(scored_hits))
       /\ \A i \in DOMAIN hits : hits[i] = scored_hits[i][1]

\* a call that cut the sorted list down to a top_k above zero
C7_Witness ==
  /\ pc = "scored"
  /\ top_k > 0
  /\ top_k < Len(scored_hits)
  /\ Len(answer_hits[1]) = top_k

\* C8: a scoring call made again on the same index with the same query and
\* top_k returns the same hit list as the call before it.
C8_RepeatedCallsAgree ==
  [][(pc = "scored" /\ pc' = "scored") => answer_hits' = answer_hits]_vars

\* the characters of the alphabet that are decimal digits, upper-case letters
DecimalDigits == {"1", "2", "3", "7", "9"}
UppercaseLetters == {"A", "B", "E", "U+00C9"}

\* positions i..j of a text are a maximal run of alphanumeric characters
IsMaximalRun(text, i, j) ==
  /\ i <= j
  /\ \A k \in i..j : IsAlphanumeric(text[k])
  /\ (i = 1 \/ ~IsAlphanumeric(text[i - 1]))
  /\ (j = Len(text) \/ ~IsAlphanumeric(text[j + 1]))

\* the token a run of a text gives
RunToken(text, i, j) ==
  Collected([ k \in 1..(j - i + 1) |-> ToAsciiLowercase(text[i + k - 1]) ])

\* a token is long enough for the configuration or is all decimal digits
PassesLengthRule(token_text) ==
  \/ Len(token_text) >= parser_config.min_token_length
  \/ \A k \in DOMAIN token_text : token_text[k] \in DecimalDigits

\* C9: every token tokenise returns has at least min_token_length characters
\* or is all decimal digits, and every maximal alphanumeric run of the input
\* that meets this rule and is not removed as a stopword is returned.
C9_LengthRule ==
  Tokenised =>
    LET tokens == filtered_tokens[1]
    IN /\ \A n \in DOMAIN tokens : PassesLengthRule(tokens[n])
       /\ \A i, j \in DOMAIN input_text :
            (/\ IsMaximalRun(input_text, i, j)
             /\ PassesLengthRule(RunToken(input_text, i, j))
             /\ ~(parser_config.remove_stopwords
                  /\ RunToken(input_text, i, j) \in stopword_set))
              => \E n \in DOMAIN tokens : tokens[n] = RunToken(input_text, i, j)

\* a call that returned a digit token below the floor and dropped a run of
\* letters of the same length
C9_Witness ==
  /\ Tokenised
  /\ \E n \in DOMAIN filtered_tokens[1] :
       Len(filtered_tokens[1][n]) < parser_config.min_token_length
  /\ \E i, j \in DOMAIN input_text :
       /\ IsMaximalRun(input_text, i, j)
       /\ ~PassesLengthRule(RunToken(input_text, i, j))
       /\ \A k \in i..j : input_text[k] \notin AsciiDigits \cup OtherDigits

\* C10: no token tokenise returns holds an upper-case letter, whatever the
\* input, letters outside ASCII included.
C10_TokensAreLowercase ==
  Tokenised =>
    \A n \in DOMAIN filtered_tokens[1] : \A k \in DOMAIN filtered_tokens[1][n] :
      filtered_tokens[1][n][k] \notin UppercaseLetters

\* the maximal runs of the input, as pairs of positions, and how many of them
\* give a token
MaximalRuns ==
  { r \in (DOMAIN input_text) \X (DOMAIN input_text) : IsMaximalRun(input_text, r[1], r[2]) }
RunsGiving(token_text) ==
  { r \in MaximalRuns : RunToken(input_text, r[1], r[2]) = token_text }

\* C11: with remove_stopwords on, tokenise returns no member of the stopword
\* set and keeps every token that passes the length rule and is not in the
\* set; with remove_stopwords off, it returns what it returns for an empty
\* stopword set, whatever the set holds.
C11_StopwordRemoval ==
  Tokenised =>
    LET tokens == filtered_tokens[1]
    IN /\ parser_config.remove_stopwords =>
            /\ \A n \in DOMAIN tokens : tokens[n] \notin stopword_set
            /\ \A r \in MaximalRuns :
                 LET token_text == RunToken(input_text, r[1], r[2])
                 IN (PassesLengthRule(token_text) /\ token_text \notin stopword_set) =>
                      Cardinality({ n \in DOMAIN tokens : tokens[n] = token_text })
                        = Cardinality(RunsGiving(token_text))
       /\ ~parser_config.remove_stopwords =>
            tokens = tokenise(input_text, {}, parser_config)

\* a call with remove_stopwords on that dropped a stopword long enough to
\* pass the length rule and kept another token
C11_Witness ==
  /\ Tokenised
  /\ parser_config.remove_stopwords
  /\ filtered_tokens[1] # << >>
  /\ \E r \in MaximalRuns :
       /\ PassesLengthRule(RunToken(input_text, r[1], r[2]))
       /\ RunToken(input_text, r[1], r[2]) \in stopword_set

\* the states after a call of resolve_topic_string, its result, and the path
\* asked for: the topic text split on the separator, every segment trimmed
Resolved == pc = "resolved" /\ resolved_root_topic # None
RequestedPath ==
  LET segments == split(topic_text, topic_separator)
  IN Collected([ i \in 1..Len(segments) |-> trim(segments[i]) ])
IsKnownTopic(path) == \E i \in DOMAIN known_topics[1] : known_topics[1][i] = path

\* C12: resolve_topic_string succeeds exactly when the requested path is a
\* known topic, and then returns that path; an empty or blank input fails
\* with the empty-topic error; a successful result is a non-empty known topic.
C12_ResolvesExactlyKnownTopics ==
  Resolved =>
    LET result == resolved_root_topic[1]
    IN /\ result.ok <=> IsKnownTopic(RequestedPath)
       /\ result.ok => /\ result.value = Some(RequestedPath)
                       /\ result.value[1] # << >>
                       /\ IsKnownTopic(result.value[1])
       /\ (\A i \in DOMAIN topic_text : topic_text[i] = " ") =>
            (~result.ok /\ result.error = Some(EmptyTopicError))

\* a topic typed with blanks around its segments that resolved to a topic of
\* two segments
C12_Witness ==
  /\ Resolved
  /\ resolved_root_topic[1].ok
  /\ Len(resolved_root_topic[1].value[1]) = 2
  /\ Len(topic_text) > Len(join(resolved_root_topic[1].value[1], topic_separator))

\* the string forms of the known topics, those that start with the first
\* segment asked for, and the ones an unknown topic is answered from
KnownForms == { join(known_topics[1][i], topic_separator) : i \in DOMAIN known_topics[1] }
PrefixedForms == { form \in KnownForms : starts_with(form, RequestedPath[1]) }
SuggestionPool == IF PrefixedForms # {} THEN PrefixedForms ELSE KnownForms

\* the suggestions an unknown-topic error carries
SuggestionsOf(error) == IF Len(error[3]) = 2 THEN error[3][2] ELSE << >>

\* a call for a path that is not blank and not a known topic
UnknownRequested ==
  /\ Resolved
  /\ \E i \in DOMAIN topic_text : topic_text[i] # " "
  /\ ~IsKnownTopic(RequestedPath)

\* C13: a non-empty path that is not a known topic fails with an
\* unknown-topic error that names the path asked for and carries at most 5
\* suggestions: the first 5, in the order of the strings, of the known topics'
\* string forms that start with the first segment asked for, or of all the
\* string forms when none does; there is none only when no topic is known.
C13_UnknownTopicSuggestions ==
  UnknownRequested =>
    LET result == resolved_root_topic[1]
        error == result.error[1]
        suggestions == SuggestionsOf(error)
    IN /\ ~result.ok
       /\ error[1] = "Unknown topic: "
       /\ error[2] = join(RequestedPath, topic_separator)
       /\ Len(suggestions) <= 5
       /\ Len(suggestions) =
            (IF Cardinality(SuggestionPool) < 5 THEN Cardinality(SuggestionPool) ELSE 5)
       /\ \A i \in DOMAIN suggestions : suggestions[i] \in SuggestionPool
       /\ \A i, j \in DOMAIN suggestions :
            i < j => (suggestions[i] # suggestions[j] /\ GuidLeq(suggestions[i], suggestions[j]))
       /\ \A form \in SuggestionPool :
            (\A i \in DOMAIN suggestions : suggestions[i] # form) =>
              \A i \in DOMAIN suggestions : GuidLeq(suggestions[i], form)
       /\ suggestions = << >> <=> known_topics[1] = << >>

\* an unknown topic answered with 5 of the 6 string forms that start with
\* its first segment
C13_Witness ==
  /\ UnknownRequested
  /\ Cardinality(PrefixedForms) = 6
  /\ Len(SuggestionsOf(resolved_root_topic[1].error[1])) = 5

\* the states after a call of collect_subtree_candidates
CandidatesCollected == pc = "collected" /\ topic_index # None

\* two paths are equal segment for segment; a path lies at or under the root
SamePath(a, b) == Len(a) = Len(b) /\ \A i \in 1..Len(a) : a[i] = b[i]
UnderRoot(path) ==
  /\ Len(path) >= Len(root_topic)
  /\ \A i \in 1..Len(root_topic) : path[i] = root_topic[i]

\* the positions of the loaded cards whose path is the root
AtRoot == { i \in DOMAIN all_cards : SamePath(all_cards[i].deck_path, root_topic) }

\* how often a card occurs in a list
Occurrences(card, cards) == Cardinality({ k \in DOMAIN cards : cards[k] = card })

\* C14: with include_subtree false, collect_subtree_candidates returns
\* exactly the cards whose path is the root segment for segment, each once
\* and in the order they were loaded in; the list is empty when no card has
\* that path, cards deeper in the subtree notwithstanding.
C14_ExactPathCandidates ==
  (CandidatesCollected /\ ~include_subtree) =>
    /\ Len(candidate_cards) = Cardinality(AtRoot)
    /\ \A k \in DOMAIN candidate_cards :
         candidate_cards[k] =
           all_cards[CHOOSE i \in AtRoot : Cardinality({ j \in AtRoot : j < i }) = k - 1]
    /\ AtRoot = {} => candidate_cards = << >>

\* a call without the subtree that returned nothing although a card lies
\* deeper under the root
C14_Witness ==
  /\ CandidatesCollected
  /\ ~include_subtree
  /\ candidate_cards = << >>
  /\ root_topic # << >>
  /\ \E i \in DOMAIN all_cards :
       UnderRoot(all_cards[i].deck_path) /\ Len(all_cards[i].deck_path) > Len(root_topic)

\* C15: with include_subtree true, collect_subtree_candidates returns, as a
\* multiset, exactly the cards whose path is at least as long as the root and
\* agrees with it on the root's segments; the result holds every card the
\* call without the subtree returns for the same root.
C15_SubtreeCandidates ==
  (CandidatesCollected /\ include_subtree) =>
    /\ \A i \in DOMAIN all_cards :
         Occurrences(all_cards[i], candidate_cards) =
           (IF UnderRoot(all_cards[i].deck_path)
            THEN Occurrences(all_cards[i], all_cards) ELSE 0)
    /\ \A k \in DOMAIN candidate_cards :
         \E i \in DOMAIN all_cards : all_cards[i] = candidate_cards[k]
    /\ LET exact == collect_subtree_candidates(topic_index[1], root_topic, FALSE, << >>)
       IN \A k \in DOMAIN exact :
            Occurrences(exact[k], candidate_cards) >= Occurrences(exact[k], exact)

\* a call with the subtree that returned a card at the root and a card
\* deeper, and left out a card on another path
C15_Witness ==
  /\ CandidatesCollected
  /\ include_subtree
  /\ root_topic # << >>
  /\ \E k \in DOMAIN candidate_cards : SamePath(candidate_cards[k].deck_path, root_topic)
  /\ \E k \in DOMAIN candidate_cards : Len(candidate_cards[k].deck_path) > Len(root_topic)
  /\ Len(candidate_cards) < Len(all_cards)

\* a comes before b in the segment-wise lexicographic order of paths
PathBefore(a, b) ==
  \E k \in 1..Len(b) :
    /\ k <= Len(a) + 1
    /\ \A i \in 1..(k - 1) : a[i] = b[i]
    /\ (k = Len(a) + 1 \/ (a[k] # b[k] /\ GuidLeq(a[k], b[k])))

\* C16: list_available_topics returns the non-empty topic paths that occur
\* on a card, each once, in ascending segment-wise lexicographic order; the
\* empty path is never in the list.
C16_AvailableTopics ==
  known_topics # None =>
    LET list == known_topics[1]
    IN /\ \A k \in DOMAIN list :
            /\ list[k] # << >>
            /\ \E i \in DOMAIN all_cards : all_cards[i].deck_path = list[k]
       /\ \A i \in DOMAIN all_cards :
            all_cards[i].deck_path # << >> =>
              \E k \in DOMAIN list : list[k] = all_cards[i].deck_path
       /\ \A j, k \in DOMAIN list : j < k => PathBefore(list[j], list[k])

\* topics listed from cards that were loaded in another order, one of them
\* without a path and two on the same path
C16_Witness ==
  /\ known_topics # None
  /\ Len(known_topics[1]) >= 3
  /\ all_cards[1].deck_path # known_topics[1][1]
  /\ \E i \in DOMAIN all_cards : all_cards[i].deck_path = << >>
  /\ \E i, j \in DOMAIN all_cards : i < j /\ all_cards[i].deck_path = all_cards[j].deck_path

\* the states holding a built TF-IDF index, and the tokens of a card
TfidfBuilt == tfidf_index # None
CardTokens(i) ==
  Range(tokenise(candidate_cards[i].question_text, stopword_set, parser_config))

\* C17: in an index built by build_tfidf_index the norms and the documents
\* have the same length, one document per candidate card in candidate
\* order; every term of a document has an IDF entry and every IDF entry's
\* term occurs in a document; vocabulary_size is the number of IDF entries
\* and document_count the number of documents.
C17_IndexIsConsistent ==
  TfidfBuilt =>
    LET index == tfidf_index[1]
    IN /\ Len(index.document_l2_norms) = Len(index.documents)
       /\ Len(index.documents) = Len(candidate_cards)
       /\ \A i \in DOMAIN index.documents :
            /\ index.documents[i].guid = candidate_cards[i].guid
            /\ index.documents[i].question_preview = candidate_cards[i].question_text
            /\ DOMAIN index.documents[i].term_frequencies = CardTokens(i)
            /\ DOMAIN index.documents[i].term_frequencies
                 \subseteq DOMAIN index.inverse_document_frequency
       /\ \A term \in DOMAIN index.inverse_document_frequency :
            \E i \in DOMAIN index.documents :
              term \in DOMAIN index.documents[i].term_frequencies
       /\ index.vocabulary_size = Cardinality(DOMAIN index.inverse_document_frequency)
       /\ index.document_count = Len(index.documents)

\* an index over two cards with three terms between them, one term in both
C17_Witness ==
  /\ TfidfBuilt
  /\ tfidf_index[1].document_count = 2
  /\ tfidf_index[1].vocabulary_size = 3
  /\ CardTokens(1) \cap CardTokens(2) # {}
  /\ CardTokens(1) # CardTokens(2)

\* the number of candidate cards a term occurs in
DocumentFrequency(term) ==
  Cardinality({ i \in DOMAIN candidate_cards : term \in CardTokens(i) })

\* C18: every term of the IDF table of an index over N documents occurs in
\* at least 1 and at most N of them; its idf is at least 1, is 1 exactly when
\* the term occurs in all N, and is never larger for a term that occurs in
\* more documents; so no term of the corpus has idf zero.
C18_IdfIsAtLeastOne ==
  TfidfBuilt =>
    LET idf == tfidf_index[1].inverse_document_frequency
        document_count == Len(candidate_cards)
    IN \A term \in DOMAIN idf :
         /\ 1 <= DocumentFrequency(term)
         /\ DocumentFrequency(term) <= document_count
         /\ F32Le(F32One, idf[term])
         /\ idf[term] # F32Zero
         /\ idf[term] = F32One <=> DocumentFrequency(term) = document_count
         /\ \A other \in DOMAIN idf :
              DocumentFrequency(term) <= DocumentFrequency(other) =>
                F32Le(idf[other], idf[term])

\* an index with a term in every document and a term in only one of them
C18_Witness ==
  /\ TfidfBuilt
  /\ Len(candidate_cards) = 2
  /\ \E term, other \in DOMAIN tfidf_index[1].inverse_document_frequency :
       /\ DocumentFrequency(term) = 2
       /\ DocumentFrequency(other) = 1
       /\ F32Lt(tfidf_index[1].inverse_document_frequency[term],
                tfidf_index[1].inverse_document_frequency[other])


\* ---- the deck loader ----
DecksLoaded == pc = "read"

\* C19: every card the deck loader hands over has a non-empty identifier, a
\* non-empty normalised question text and a non-empty answer text.
C19_LoadedCardsAreComplete ==
  DecksLoaded =>
    \A i \in DOMAIN all_cards :
      /\ all_cards[i].guid # << >>
      /\ all_cards[i].question_text # << >>
      /\ all_cards[i].answer_raw # << >>

\* ---- the keyword index ----
KeywordIndexed == prepared_keyword_index # None

\* C20: the keyword index holds one PreparedQuestion per candidate card, in
\* candidate order; its token_set is the set of tokens of the card's question
\* text and its token_count is the size of that set.
C20_PreparedQuestions ==
  KeywordIndexed =>
    /\ Len(prepared_keyword_index[1]) = Len(candidate_cards)
    /\ \A i \in DOMAIN candidate_cards :
         LET prepared_question == prepared_keyword_index[1][i]
         IN /\ prepared_question.guid = candidate_cards[i].guid
            /\ prepared_question.token_set = CardTokens(i)
            /\ prepared_question.token_count = Cardinality(prepared_question.token_set)

\* ---- the tokeniser, run by run ----
SetTokenised == pc = "tokenised" /\ token_set # None

\* the maximal runs of the input that survive the length and stopword
\* filters, and the one of them with n - 1 survivors before it
SurvivingRuns ==
  { r \in MaximalRuns :
      LET token_text == RunToken(input_text, r[1], r[2])
      IN /\ PassesLengthRule(token_text)
         /\ ~(parser_config.remove_stopwords /\ token_text \in stopword_set) }
SurvivingRun(n) ==
  CHOOSE r \in SurvivingRuns :
    Cardinality({ q \in SurvivingRuns : q[1] < r[1] }) = n - 1

\* C21: the tokens tokenise returns are, in input order, the maximal
\* alphanumeric runs of the input that survive the length and stopword
\* filters, one token per surviving run; every token is non-empty and all
\* alphanumeric; tokenise_to_set returns the set of those tokens.
C21_TokensAreTheSurvivingRuns ==
  /\ Tokenised =>
       LET tokens == filtered_tokens[1]
       IN /\ Len(tokens) = Cardinality(SurvivingRuns)
          /\ \A n \in DOMAIN tokens :
               /\ tokens[n] # << >>
               /\ \A k \in DOMAIN tokens[n] : IsAlphanumeric(tokens[n][k])
               /\ tokens[n] = RunToken(input_text, SurvivingRun(n)[1], SurvivingRun(n)[2])
  /\ SetTokenised =>
       token_set[1] = { RunToken(input_text, r[1], r[2]) : r \in SurvivingRuns }

\* a call that returned two different tokens, the second from a run that
\* ends at the end of the input
C21_Witness ==
  /\ Tokenised
  /\ Len(filtered_tokens[1]) = 2
  /\ filtered_tokens[1][1] # filtered_tokens[1][2]
  /\ IsAlphanumeric(input_text[Len(input_text)])

\* ---- term and document frequencies ----
\* the tokens of the question text of candidate card i, in order, and how
\* often a term occurs among them
CardTokenVector(i) ==
  tokenise(candidate_cards[i].question_text, stopword_set, parser_config)
TermOccurrences(i, term) ==
  Cardinality({ k \in DOMAIN CardTokenVector(i) : CardTokenVector(i)[k] = term })

\* the number of documents of the index whose tf of a term is at least 1
DocumentsHolding(term) ==
  Cardinality({ i \in DOMAIN tfidf_index[1].documents :
                  /\ term \in DOMAIN tfidf_index[1].documents[i].term_frequencies
                  /\ F32Le(F32One, tfidf_index[1].documents[i].term_frequencies[term]) })

\* C22: in a built index the tf of a term in a document is the number of
\* times the term occurs in the tokenised question text, token_count is the
\* sum of the document's tf values, and the idf of a term is the one of the
\* number of documents whose tf of the term is at least 1, a document
\* counted once however often the term repeats in it.
C22_TermAndDocumentFrequencies ==
  TfidfBuilt =>
    LET index == tfidf_index[1]
        document_count == Len(index.documents)
    IN /\ \A i \in DOMAIN index.documents :
            LET document_entry == index.documents[i]
            IN /\ \A term \in DOMAIN document_entry.term_frequencies :
                    document_entry.term_frequencies[term]
                      = F32FromNat(TermOccurrences(i, term))
               /\ \A k \in DOMAIN CardTokenVector(i) :
                    CardTokenVector(i)[k] \in DOMAIN document_entry.term_frequencies
               /\ document_entry.token_count = Len(CardTokenVector(i))
       /\ \A term \in DOMAIN index.inverse_document_frequency :
            \A document_frequency \in 0..document_count :
              index.inverse_document_frequency[term]
                  = F32Add(F32Ln(F32Div(F32FromNat(document_count + 1),
                                        F32FromNat(document_frequency + 1))), F32One)
                <=> document_frequency = DocumentsHolding(term)

\* an index over two cards with a term that occurs twice in one of them and
\* once in the other
C22_Witness ==
  /\ TfidfBuilt
  /\ Len(candidate_cards) = 2
  /\ \E term \in DOMAIN tfidf_index[1].inverse_document_frequency :
       /\ TermOccurrences(1, term) + TermOccurrences(2, term) = 3
       /\ DocumentsHolding(term) = 2

\* ---- query terms outside the corpus ----
\* the tokens of the query, those of them the IDF table knows, and the
\* query made of the known ones alone
QueryTokenVector == tokenise(query_text, stopword_set, parser_config)
KnownQueryTokens ==
  SelectSeq(QueryTokenVector,
            LAMBDA token_text : token_text \in DOMAIN tfidf_index[1].inverse_document_frequency)
KnownQueryText == join(KnownQueryTokens, <<" ">>)

\* C23: the tokens of a query that occur in no indexed document change
\* nothing: what score_tfidf returns for the query, scores, overlap counts
\* and order included, is what it returns for the query without them, under
\* every iteration order of the query's weight map.
C23_UnknownTermsChangeNothing ==
  TfidfScored =>
    /\ tokenise(KnownQueryText, stopword_set, parser_config) = KnownQueryTokens
    /\ QueryOrders(query_text, tfidf_index[1], stopword_set, parser_config)
         = QueryOrders(KnownQueryText, tfidf_index[1], stopword_set, parser_config)
    /\ \A order \in QueryOrders(query_text, tfidf_index[1], stopword_set, parser_config) :
         /\ TfidfScoredHits(query_text, tfidf_index[1], stopword_set, parser_config, order)
              = TfidfScoredHits(KnownQueryText, tfidf_index[1], stopword_set,
                                parser_config, order)
         /\ score_tfidf(query_text, tfidf_index[1], stopword_set, parser_config, top_k, order)
              = score_tfidf(KnownQueryText, tfidf_index[1], stopword_set, parser_config,
                            top_k, order)
    /\ \E order \in QueryOrders(KnownQueryText, tfidf_index[1], stopword_set, parser_config) :
         /\ scored_hits = TfidfScoredHits(KnownQueryText, tfidf_index[1], stopword_set,
                                          parser_config, order)
         /\ answer_hits = Some(score_tfidf(KnownQueryText, tfidf_index[1], stopword_set,
                                           parser_config, top_k, order))

\* a call that returned a hit for a query with a token of the corpus and a
\* token of no indexed document
C23_Witness ==
  /\ TfidfScored
  /\ answer_hits[1] # << >>
  /\ KnownQueryTokens # << >>
  /\ Len(KnownQueryTokens) < Len(QueryTokenVector)

\* ---- the driver ----
\* C24: from the index build on, exactly one index has been built, the one
\* of the selected algorithm, and the other is absent; every scoring call
\* made, warm-up calls included, went to the scorer of the selected
\* algorithm, after the build; no call found its index missing.
C24_OneIndexAndItsScorer ==
  /\ pc # "panicked"
  /\ pc # "build" =>
       /\ index_builds = <<algorithm_name>>
       /\ (algorithm_name = "keyword") =>
            (prepared_keyword_index # None /\ tfidf_index = None)
       /\ (algorithm_name = "tfidf") =>
            (tfidf_index # None /\ prepared_keyword_index = None)
  /\ pc = "build" => (scorer_calls = << >> /\ index_builds = << >>)
  /\ \A i \in DOMAIN scorer_calls : scorer_calls[i] = algorithm_name

\* an interactive keyword run that made a warm-up call and answered a
\* question
C24_Witness ==
  /\ is_interactive
  /\ algorithm_name = "keyword"
  /\ Len(scorer_calls) = 2
  /\ answer_hits # None
  /\ pc = "prompt"

\* ---- the order of the candidate cards ----
UniqueGuids ==
  \A i, j \in DOMAIN candidate_cards :
    i # j => candidate_cards[i].guid # candidate_cards[j].guid

\* the candidate cards supplied in another order
Permuted(order) == Collected([ i \in DOMAIN order |-> candidate_cards[order[i]] ])

\* C25: with unique card identifiers, the hit list a scorer returns is the
\* one it returns over an index built from the same cards supplied in any
\* other order: for score_keyword_overlap the same list; for score_tfidf an
\* index built from the permuted cards that gives, under every iteration
\* order of the query's weight map, the list the index of the run gives.
C25_CandidateOrderIsIrrelevant ==
  (pc = "scored" /\ UniqueGuids) =>
    \A order \in Orderings(DOMAIN candidate_cards) :
      /\ prepared_keyword_index # None =>
           answer_hits[1] =
             score_keyword_overlap(query_text,
                                   prepare_keyword_index(Permuted(order), stopword_set,
                                                         parser_config),
                                   stopword_set, parser_config, top_k)
      /\ tfidf_index # None =>
           \E index \in build_tfidf_index(Permuted(order), stopword_set, parser_config) :
             /\ \A query_order \in QueryOrders(query_text, tfidf_index[1], stopword_set,
                                               parser_config) :
                  score_tfidf(query_text, index, stopword_set, parser_config, top_k,
                              query_order)
                    = score_tfidf(query_text, tfidf_index[1], stopword_set, parser_config,
                                  top_k, query_order)
             /\ \E query_order \in QueryOrders(query_text, index, stopword_set,
                                               parser_config) :
                  answer_hits[1] = score_tfidf(query_text, index, stopword_set,
                                               parser_config, top_k, query_order)

\* a call over three cards with different identifiers whose first two hits
\* have the same score
C25_Witness ==
  /\ pc = "scored"
  /\ UniqueGuids
  /\ Len(candidate_cards) = 3
  /\ Len(answer_hits[1]) >= 2
  /\ answer_hits[1][1].score = answer_hits[1][2].score

\* C26: an interactive session ends: from the prompt on, 'exit' is typed, a
\* read fails or standard input comes to its end, and then the loop is left
\* and the final timing line is printed.
C26_InteractiveSessionEnds ==
  (is_interactive /\ pc = "prompt") ~> (pc = "done" /\ timing_printed)

\* ---- entities ----
Decoded == pc = "decoded" /\ decoded_text # None

\* position i of a text opens a recognised entity closed at position j: an
\* "&", a name with no "&" and no ";" in it, a ";", the name one of amp, lt,
\* gt, quot, #39 or a decimal or hexadecimal character reference
IsRecognisedEntity(text, i, j) ==
  /\ i < j
  /\ text[i] = "&"
  /\ text[j] = ";"
  /\ \A k \in (i + 1)..(j - 1) : text[k] \notin {"&", ";"}
  /\ Len(DecodeEntity(SubSeq(text, i + 1, j - 1))) = 1

RECURSIVE VerbatimFrom(_, _)
\* a text from position i on with its recognised entities replaced and
\* every other character kept
VerbatimFrom(text, i) ==
  IF i > Len(text) THEN << >>
  ELSE IF \E j \in DOMAIN text : IsRecognisedEntity(text, i, j)
       THEN LET j == CHOOSE j \in DOMAIN text : IsRecognisedEntity(text, i, j)
            IN DecodeEntity(SubSeq(text, i + 1, j - 1)) \o VerbatimFrom(text, j + 1)
       ELSE <<text[i]>> \o VerbatimFrom(text, i + 1)

\* C27: decode_basic_entities replaces the recognised entities of its input
\* and returns every other character in order, the text after an "&" that
\* is not closed by ";" included; an input without a recognised entity is
\* returned unchanged.
C27_OnlyEntitiesAreReplaced ==
  Decoded =>
    /\ decoded_text[1] = VerbatimFrom(input_text, 1)
    /\ (\A i, j \in DOMAIN input_text : ~IsRecognisedEntity(input_text, i, j)) =>
         decoded_text[1] = input_text
=============================================================================
